---------------------------- MODULE Spec2Model ----------------------------
(***************************************************************************)
(* A model of glocc (github.com/ckatsak/glocc): the per-file line          *)
(* classifier of loccounter.go and the fork-join directory walker of       *)
(* count.go.                                                               *)
(*                                                                         *)
(* Text is modelled as sequences of one-character strings, so that         *)
(* strings.Index, strings.TrimLeft, filepath.Ext and reversed are computed *)
(* character by character as the Go code computes them.  All characters    *)
(* used are ASCII, so bytes and runes coincide.                            *)
(***************************************************************************)
EXTENDS Integers, Sequences, FiniteSets, TLC

(***************************************************************************)
(* Bounds of the model.                                                    *)
(***************************************************************************)
\* Number of filesystem entries below the root given to CountLoc.
MaxEntries == 3
\* Number of physical lines of a file fed to LocCounter.Count.
MaxLines == 3
\* Number of characters of a physical line fed to LocCounter.Count.
MaxLineLen == 3
\* Number of command-line arguments given to gloccMain.
MaxArgs == 3

(***************************************************************************)
(* Go library functions on strings and paths.                              *)
(***************************************************************************)
\* s[n:]
Drop(s, n) == SubSeq(s, n + 1, Len(s))

\* s[:n]
Take(s, n) == SubSeq(s, 1, n)

\* t occurs in s at the (0-based) index i
OccursAt(s, t, i) == i + Len(t) <= Len(s) /\ SubSeq(s, i + 1, i + Len(t)) = t

\* strings.Index(s, t): the lowest 0-based index of t in s, or -1
Index(s, t) ==
  IF \E i \in 0..Len(s) : OccursAt(s, t, i)
    THEN CHOOSE i \in 0..Len(s) :
           OccursAt(s, t, i) /\ \A j \in 0..(i - 1) : ~OccursAt(s, t, j)
    ELSE -1

\* strings.HasPrefix(s, p)
HasPrefix(s, p) == Len(s) >= Len(p) /\ Take(s, Len(p)) = p

\* the cutset " \t" of the two calls of strings.TrimLeft
Blank == {" ", "\t"}

\* strings.TrimLeft(s, " \t")
RECURSIVE TrimLeft(_)
TrimLeft(s) ==
  IF s # <<>> /\ Head(s) \in Blank THEN TrimLeft(Tail(s)) ELSE s

\* reversed(s): the runes of s in reverse order
reversed(s) == [i \in 1..Len(s) |-> s[Len(s) + 1 - i]]

(***************************************************************************)
(* doc.go: the supported languages.                                        *)
(***************************************************************************)
allLanguages ==
  <<
    [ name |-> "Ada",
      extensions |-> <<<<"a", "d", "b">>, <<"a", "d", "s">>>>,
      inlineCommentTokens |-> <<<<"-", "-">>>>,
      multiLineCommentStartingTokens |-> <<>>,
      multiLineCommentEndingTokens |-> <<>> ],
    [ name |-> "Assembly",
      extensions |-> <<<<"a", "s", "m">>, <<"s">>, <<"S">>>>,
      inlineCommentTokens |-> <<<<";">>>>,
      multiLineCommentStartingTokens |-> <<>>,
      multiLineCommentEndingTokens |-> <<>> ],
    [ name |-> "AWK",
      extensions |-> <<<<"a", "w", "k">>>>,
      inlineCommentTokens |-> <<<<"#">>>>,
      multiLineCommentStartingTokens |-> <<>>,
      multiLineCommentEndingTokens |-> <<>> ],
    [ name |-> "C",
      extensions |-> <<<<"c">>, <<"h">>>>,
      inlineCommentTokens |-> <<<<"/", "/">>>>,
      multiLineCommentStartingTokens |-> <<<<"/", "*">>>>,
      multiLineCommentEndingTokens |-> <<<<"*", "/">>>> ],
    [ name |-> "C++",
      extensions |-> <<<<"c", "c">>, <<"h", "h">>, <<"C">>, <<"H">>, <<"c", "p", "p">>, <<"h", "p", "p">>, <<"c", "x", "x">>, <<"h", "x", "x">>, <<"c", "+", "+">>, <<"h", "+", "+">>>>,
      inlineCommentTokens |-> <<<<"/", "/">>>>,
      multiLineCommentStartingTokens |-> <<<<"/", "*">>>>,
      multiLineCommentEndingTokens |-> <<<<"*", "/">>>> ],
    [ name |-> "C#",
      extensions |-> <<<<"c", "s">>>>,
      inlineCommentTokens |-> <<<<"/", "/">>, <<"/", "/", "/">>>>,
      multiLineCommentStartingTokens |-> <<<<"/", "*">>, <<"/", "*", "*">>>>,
      multiLineCommentEndingTokens |-> <<<<"*", "/">>>> ],
    [ name |-> "D",
      extensions |-> <<<<"d">>>>,
      inlineCommentTokens |-> <<<<"/", "/">>, <<"/", "/", "/">>>>,
      multiLineCommentStartingTokens |-> <<<<"/", "*">>, <<"/", "+">>>>,
      multiLineCommentEndingTokens |-> <<<<"*", "/">>, <<"+", "/">>>> ],
    [ name |-> "Delphi",
      extensions |-> <<<<"p">>, <<"p", "p">>, <<"p", "a", "s">>>>,
      inlineCommentTokens |-> <<<<"/", "/">>>>,
      multiLineCommentStartingTokens |-> <<<<"(", "*">>, <<"{">>>>,
      multiLineCommentEndingTokens |-> <<<<"*", ")">>, <<"}">>>> ],
    [ name |-> "Dockerfile",
      extensions |-> <<<<"D", "o", "c", "k", "e", "r", "f", "i", "l", "e">>>>,
      inlineCommentTokens |-> <<<<"#">>>>,
      multiLineCommentStartingTokens |-> <<>>,
      multiLineCommentEndingTokens |-> <<>> ],
    [ name |-> "Eiffel",
      extensions |-> <<<<"e">>>>,
      inlineCommentTokens |-> <<<<"-", "-">>>>,
      multiLineCommentStartingTokens |-> <<>>,
      multiLineCommentEndingTokens |-> <<>> ],
    [ name |-> "Elixir",
      extensions |-> <<<<"e", "x">>, <<"e", "x", "s">>>>,
      inlineCommentTokens |-> <<<<"%">>>>,
      multiLineCommentStartingTokens |-> <<>>,
      multiLineCommentEndingTokens |-> <<>> ],
    [ name |-> "Erlang",
      extensions |-> <<<<"e", "r", "l">>, <<"h", "r", "l">>>>,
      inlineCommentTokens |-> <<<<"%">>>>,
      multiLineCommentStartingTokens |-> <<>>,
      multiLineCommentEndingTokens |-> <<>> ],
    [ name |-> "Go",
      extensions |-> <<<<"g", "o">>>>,
      inlineCommentTokens |-> <<<<"/", "/">>>>,
      multiLineCommentStartingTokens |-> <<<<"/", "*">>>>,
      multiLineCommentEndingTokens |-> <<<<"*", "/">>>> ],
    [ name |-> "Haskell",
      extensions |-> <<<<"h", "s">>, <<"l", "h", "s">>>>,
      inlineCommentTokens |-> <<<<"-", "-">>>>,
      multiLineCommentStartingTokens |-> <<<<"{", "-">>>>,
      multiLineCommentEndingTokens |-> <<<<"-", "}">>>> ],
    [ name |-> "HTML",
      extensions |-> <<<<"h", "t", "m", "l">>, <<"h", "t", "m">>>>,
      inlineCommentTokens |-> <<>>,
      multiLineCommentStartingTokens |-> <<<<"<", "!", "-", "-">>>>,
      multiLineCommentEndingTokens |-> <<<<"-", "-", ">">>>> ],
    [ name |-> "Java",
      extensions |-> <<<<"j", "a", "v", "a">>>>,
      inlineCommentTokens |-> <<<<"/", "/">>>>,
      multiLineCommentStartingTokens |-> <<<<"/", "*">>, <<"/", "*", "*">>>>,
      multiLineCommentEndingTokens |-> <<<<"*", "/">>>> ],
    [ name |-> "Javascript",
      extensions |-> <<<<"j", "s">>>>,
      inlineCommentTokens |-> <<<<"/", "/">>>>,
      multiLineCommentStartingTokens |-> <<<<"/", "*">>>>,
      multiLineCommentEndingTokens |-> <<<<"*", "/">>>> ],
    [ name |-> "JSON",
      extensions |-> <<<<"j", "s", "o", "n">>>>,
      inlineCommentTokens |-> <<>>,
      multiLineCommentStartingTokens |-> <<>>,
      multiLineCommentEndingTokens |-> <<>> ],
    [ name |-> "Kotlin",
      extensions |-> <<<<"k", "t">>, <<"k", "t", "s">>>>,
      inlineCommentTokens |-> <<<<"/", "/">>>>,
      multiLineCommentStartingTokens |-> <<<<"/", "*">>>>,
      multiLineCommentEndingTokens |-> <<<<"*", "/">>>> ],
    [ name |-> "Lisp",
      extensions |-> <<<<"l", "i", "s", "p">>, <<"l", "s", "p">>, <<"l">>, <<"c", "l">>, <<"f", "a", "s", "l">>>>,
      inlineCommentTokens |-> <<<<";">>>>,
      multiLineCommentStartingTokens |-> <<<<"#", "|">>>>,
      multiLineCommentEndingTokens |-> <<<<"|", "#">>>> ],
    [ name |-> "Makefile",
      extensions |-> <<<<"M", "a", "k", "e", "f", "i", "l", "e">>>>,
      inlineCommentTokens |-> <<<<"#">>>>,
      multiLineCommentStartingTokens |-> <<>>,
      multiLineCommentEndingTokens |-> <<>> ],
    [ name |-> "Markdown",
      extensions |-> <<<<"m", "d">>>>,
      inlineCommentTokens |-> <<>>,
      multiLineCommentStartingTokens |-> <<>>,
      multiLineCommentEndingTokens |-> <<>> ],
    [ name |-> "Matlab",
      extensions |-> <<<<"m">>>>,
      inlineCommentTokens |-> <<<<"%">>>>,
      multiLineCommentStartingTokens |-> <<<<"%", "{">>>>,
      multiLineCommentEndingTokens |-> <<<<"%", "}">>>> ],
    [ name |-> "OCaml",
      extensions |-> <<<<"m", "l">>, <<"m", "l", "i">>>>,
      inlineCommentTokens |-> <<>>,
      multiLineCommentStartingTokens |-> <<<<"(", "*">>>>,
      multiLineCommentEndingTokens |-> <<<<"*", ")">>>> ],
    [ name |-> "Perl",
      extensions |-> <<<<"p", "l">>, <<"p", "m">>, <<"t">>, <<"p", "o", "d">>>>,
      inlineCommentTokens |-> <<<<"#">>>>,
      multiLineCommentStartingTokens |-> <<<<"=", "b", "e", "g", "i", "n">>>>,
      multiLineCommentEndingTokens |-> <<<<"=", "c", "u", "t">>>> ],
    [ name |-> "PHP",
      extensions |-> <<<<"p", "h", "p">>>>,
      inlineCommentTokens |-> <<<<"#">>, <<"/", "/">>>>,
      multiLineCommentStartingTokens |-> <<<<"/", "*">>, <<"/", "*", "*">>>>,
      multiLineCommentEndingTokens |-> <<<<"*", "/">>>> ],
    [ name |-> "PowerShell",
      extensions |-> <<<<"p", "s", "1">>>>,
      inlineCommentTokens |-> <<<<"#">>>>,
      multiLineCommentStartingTokens |-> <<<<"<", "#">>>>,
      multiLineCommentEndingTokens |-> <<<<"#", ">">>>> ],
    [ name |-> "Protocol Buffers",
      extensions |-> <<<<"p", "r", "o", "t", "o">>>>,
      inlineCommentTokens |-> <<<<"/", "/">>>>,
      multiLineCommentStartingTokens |-> <<<<"/", "*">>>>,
      multiLineCommentEndingTokens |-> <<<<"*", "/">>>> ],
    [ name |-> "Python",
      extensions |-> <<<<"p", "y">>>>,
      inlineCommentTokens |-> <<<<"#">>>>,
      multiLineCommentStartingTokens |-> <<<<"\"", "\"", "\"">>, <<"'", "'", "'">>>>,
      multiLineCommentEndingTokens |-> <<<<"\"", "\"", "\"">>, <<"'", "'", "'">>>> ],
    [ name |-> "R",
      extensions |-> <<<<"r">>, <<"R">>, <<"R", "D", "a", "t", "a">>, <<"r", "d", "s">>, <<"r", "d", "a">>>>,
      inlineCommentTokens |-> <<<<"#">>>>,
      multiLineCommentStartingTokens |-> <<>>,
      multiLineCommentEndingTokens |-> <<>> ],
    [ name |-> "Ruby",
      extensions |-> <<<<"r", "b">>>>,
      inlineCommentTokens |-> <<<<"#">>>>,
      multiLineCommentStartingTokens |-> <<<<"=", "b", "e", "g", "i", "n">>>>,
      multiLineCommentEndingTokens |-> <<<<"=", "e", "n", "d">>>> ],
    [ name |-> "Rust",
      extensions |-> <<<<"r", "s">>, <<"r", "l", "i", "b">>>>,
      inlineCommentTokens |-> <<<<"/", "/">>, <<"/", "/", "/">>, <<"/", "/", "!">>>>,
      multiLineCommentStartingTokens |-> <<<<"/", "*">>, <<"/", "*", "*">>, <<"/", "*", "!">>>>,
      multiLineCommentEndingTokens |-> <<<<"*", "/">>>> ],
    [ name |-> "Scala",
      extensions |-> <<<<"s", "c", "a", "l", "a">>, <<"s", "c">>>>,
      inlineCommentTokens |-> <<<<"/", "/">>>>,
      multiLineCommentStartingTokens |-> <<<<"/", "*">>>>,
      multiLineCommentEndingTokens |-> <<<<"*", "/">>>> ],
    [ name |-> "Scheme",
      extensions |-> <<<<"s", "c", "m">>, <<"s", "s">>>>,
      inlineCommentTokens |-> <<<<";">>>>,
      multiLineCommentStartingTokens |-> <<<<"#", "|">>>>,
      multiLineCommentEndingTokens |-> <<<<"|", "#">>>> ],
    [ name |-> "Shell",
      extensions |-> <<<<"s", "h">>, <<"b", "a", "s", "h">>, <<"z", "s", "h">>, <<"k", "s", "h">>, <<"c", "s", "h">>>>,
      inlineCommentTokens |-> <<<<"#">>>>,
      multiLineCommentStartingTokens |-> <<>>,
      multiLineCommentEndingTokens |-> <<>> ],
    [ name |-> "SQL",
      extensions |-> <<<<"s", "q", "l">>>>,
      inlineCommentTokens |-> <<<<"-", "-">>>>,
      multiLineCommentStartingTokens |-> <<>>,
      multiLineCommentEndingTokens |-> <<>> ],
    [ name |-> "Standard ML",
      extensions |-> <<<<"s", "m", "l">>>>,
      inlineCommentTokens |-> <<>>,
      multiLineCommentStartingTokens |-> <<<<"(", "*">>>>,
      multiLineCommentEndingTokens |-> <<<<"*", ")">>>> ],
    [ name |-> "TeX",
      extensions |-> <<<<"t", "e", "x">>>>,
      inlineCommentTokens |-> <<<<"%">>>>,
      multiLineCommentStartingTokens |-> <<>>,
      multiLineCommentEndingTokens |-> <<>> ],
    [ name |-> "plain text",
      extensions |-> <<<<"t", "x", "t">>>>,
      inlineCommentTokens |-> <<>>,
      multiLineCommentStartingTokens |-> <<>>,
      multiLineCommentEndingTokens |-> <<>> ],
    [ name |-> "Tcl",
      extensions |-> <<<<"t", "c", "l">>, <<"t", "b", "c">>>>,
      inlineCommentTokens |-> <<<<"#">>>>,
      multiLineCommentStartingTokens |-> <<>>,
      multiLineCommentEndingTokens |-> <<>> ],
    [ name |-> "YAML",
      extensions |-> <<<<"y", "a", "m", "l">>, <<"y", "m", "l">>>>,
      inlineCommentTokens |-> <<<<"#">>>>,
      multiLineCommentStartingTokens |-> <<>>,
      multiLineCommentEndingTokens |-> <<>> ]
  >>

\* every extension some entry of allLanguages declares
AllExtensions ==
  UNION { { allLanguages[i].extensions[j] :
              j \in 1..Len(allLanguages[i].extensions) } :
          i \in 1..Len(allLanguages) }

\* the extension with the capital letters that occur in an extension beside
\* their small ones made small
FoldCase(ext) ==
  [k \in 1..Len(ext) |->
     CASE ext[k] = "C" -> "c"
       [] ext[k] = "H" -> "h"
       [] ext[k] = "S" -> "s"
       [] ext[k] = "R" -> "r"
       [] OTHER        -> ext[k]]

\* languages with the extensions compared without regard to case
languagesCaseFolded ==
  [ext \in AllExtensions |->
     LET declaring == { i \in 1..Len(allLanguages) :
                          \E j \in 1..Len(allLanguages[i].extensions) :
                            FoldCase(allLanguages[i].extensions[j]) = FoldCase(ext) }
         last == CHOOSE i \in declaring : \A k \in declaring : k <= i
     IN  allLanguages[last]]

\* init(): languages[ext] = lang, for every lang of allLanguages in order and
\* every ext of lang.extensions; a later assignment overwrites an earlier one.
languages ==
  [ext \in AllExtensions |->
     LET declaring == { i \in 1..Len(allLanguages) :
                          \E j \in 1..Len(allLanguages[i].extensions) :
                            allLanguages[i].extensions[j] = ext }
         last == CHOOSE i \in declaring : \A k \in declaring : k <= i
     IN  allLanguages[last]]

(***************************************************************************)
(* loccounter.go: LocCounter and its three states.                         *)
(*                                                                         *)
(* A LocCounter is a record lc: language, loc, currLine, currLineCounted,  *)
(* fileLinesCnt, state and token (the field stateMultiLineComment.token).  *)
(***************************************************************************)
\* NewLocCounter's lookup: valid is languages[ext]'s second result
NewLocCounterValid(ext) == ext \in DOMAIN languages

\* NewLocCounter(file, ext), for a supported ext
NewLocCounter(ext) ==
  [language        |-> languages[ext],
   loc             |-> 0,
   currLine        |-> <<>>,
   currLineCounted |-> FALSE,
   fileLinesCnt    |-> 0,
   state           |-> "stateInitial",
   token           |-> <<>>]

\* FirstToken with <= in place of <: among tokens found at the same index
\* the one declared last wins
RECURSIVE FirstTokenLastWins(_, _, _)
FirstTokenLastWins(line, tokens, best) ==
  IF tokens = <<>> THEN best
  ELSE LET t == Head(tokens)
           idx == Index(line, t)
       IN  FirstTokenLastWins(line, Tail(tokens),
                              IF idx # -1 /\ idx <= best.idx
                                THEN [idx |-> idx, token |-> t]
                                ELSE best)

\* the loop shared by inlineCommentIndex and the three process methods: the
\* lowest index of any token of tokens in line, with the token found there;
\* among tokens at the same index the one declared first wins (strict <).
RECURSIVE FirstToken(_, _, _)
FirstToken(line, tokens, best) ==
  IF tokens = <<>> THEN best
  ELSE LET t == Head(tokens)
           idx == Index(line, t)
       IN  FirstToken(line, Tail(tokens),
                      IF idx # -1 /\ idx < best.idx
                        THEN [idx |-> idx, token |-> t]
                        ELSE best)

\* lc.inlineCommentIndex()
inlineCommentIndex(lc) ==
  FirstToken(lc.currLine, lc.language.inlineCommentTokens,
             [idx |-> Len(lc.currLine), token |-> <<>>]).idx

\* lc.lineIsEmpty()
lineIsEmpty(lc) == Len(lc.currLine) = 0

\* CutAfter without the call of strings.TrimLeft
CutAfterNoTrim(line, idx, token) == Drop(line, idx + Len(token))

\* the tail shared by the three process methods: cut the line after the token
\* found at idx and trim it
CutAfter(line, idx, token) == TrimLeft(Drop(line, idx + Len(token)))

\* stateInitialProcess leaving stateInitial on an empty or commented-out
\* line as well
stateInitialProcessLeavesAlways(lc) ==
  LET firstInlineCommTokenIdx == inlineCommentIndex(lc)
      first == FirstToken(lc.currLine, lc.language.multiLineCommentStartingTokens,
                          [idx |-> Len(lc.currLine), token |-> <<>>])
  IN  IF lineIsEmpty(lc) \/ firstInlineCommTokenIdx = 0
        THEN [lc |-> [lc EXCEPT !.state = "stateCode"], done |-> TRUE]
      ELSE IF first.idx < firstInlineCommTokenIdx
        THEN [lc |-> [lc EXCEPT
                        !.currLineCounted = IF first.idx > 0 THEN TRUE ELSE @,
                        !.currLine = CutAfter(lc.currLine, first.idx, first.token),
                        !.token = first.token,
                        !.state = "stateMultiLineComment"],
              done |-> FALSE]
      ELSE [lc |-> [lc EXCEPT !.state = "stateCode"], done |-> FALSE]

\* stateInitialProcess without the setState(globalStateCode) of its else
\* branch
stateInitialProcessStays(lc) ==
  LET firstInlineCommTokenIdx == inlineCommentIndex(lc)
      first == FirstToken(lc.currLine, lc.language.multiLineCommentStartingTokens,
                          [idx |-> Len(lc.currLine), token |-> <<>>])
  IN  IF lineIsEmpty(lc) \/ firstInlineCommTokenIdx = 0
        THEN [lc |-> lc, done |-> TRUE]
      ELSE IF first.idx < firstInlineCommTokenIdx
        THEN [lc |-> [lc EXCEPT
                        !.currLineCounted = IF first.idx > 0 THEN TRUE ELSE @,
                        !.currLine = CutAfter(lc.currLine, first.idx, first.token),
                        !.token = first.token,
                        !.state = "stateMultiLineComment"],
              done |-> FALSE]
      ELSE [lc |-> lc, done |-> FALSE]

\* stateInitialProcess looking for a block comment's start before it tests
\* the inline tokens, and taking the start found at the index of an inline
\* token
stateInitialProcessBlockFirst(lc) ==
  LET firstInlineCommTokenIdx == inlineCommentIndex(lc)
      first == FirstToken(lc.currLine, lc.language.multiLineCommentStartingTokens,
                          [idx |-> Len(lc.currLine), token |-> <<>>])
  IN  IF lineIsEmpty(lc)
        THEN [lc |-> lc, done |-> TRUE]
      ELSE IF first.idx <= firstInlineCommTokenIdx /\ first.idx < Len(lc.currLine)
        THEN [lc |-> [lc EXCEPT
                        !.currLineCounted = IF first.idx > 0 THEN TRUE ELSE @,
                        !.currLine = CutAfter(lc.currLine, first.idx, first.token),
                        !.token = first.token,
                        !.state = "stateMultiLineComment"],
              done |-> FALSE]
      ELSE IF firstInlineCommTokenIdx = 0
        THEN [lc |-> lc, done |-> TRUE]
      ELSE [lc |-> [lc EXCEPT !.state = "stateCode"], done |-> FALSE]

\* stateInitialProcess doing the work of the Code state itself on a line of
\* code: the line is marked counted and ended, and the state stays Initial
stateInitialProcessCountsInPlace(lc) ==
  LET firstInlineCommTokenIdx == inlineCommentIndex(lc)
      first == FirstToken(lc.currLine, lc.language.multiLineCommentStartingTokens,
                          [idx |-> Len(lc.currLine), token |-> <<>>])
  IN  IF lineIsEmpty(lc) \/ firstInlineCommTokenIdx = 0
        THEN [lc |-> lc, done |-> TRUE]
      ELSE IF first.idx < firstInlineCommTokenIdx
        THEN [lc |-> [lc EXCEPT
                        !.currLineCounted = IF first.idx > 0 THEN TRUE ELSE @,
                        !.currLine = CutAfter(lc.currLine, first.idx, first.token),
                        !.token = first.token,
                        !.state = "stateMultiLineComment"],
              done |-> FALSE]
      ELSE [lc |-> [lc EXCEPT !.currLineCounted = TRUE], done |-> TRUE]

\* (s *stateInitial) process(lc): the LocCounter after the call, and the
\* bool returned
stateInitialProcess(lc) ==
  LET firstInlineCommTokenIdx == inlineCommentIndex(lc)
      first == FirstToken(lc.currLine, lc.language.multiLineCommentStartingTokens,
                          [idx |-> Len(lc.currLine), token |-> <<>>])
  IN  IF lineIsEmpty(lc) \/ firstInlineCommTokenIdx = 0
        THEN [lc |-> lc, done |-> TRUE]
      ELSE IF first.idx < firstInlineCommTokenIdx
        THEN [lc |-> [lc EXCEPT
                        !.currLineCounted = IF first.idx > 0 THEN TRUE ELSE @,
                        !.currLine = CutAfter(lc.currLine, first.idx, first.token),
                        !.token = first.token,
                        !.state = "stateMultiLineComment"],
              done |-> FALSE]
      ELSE [lc |-> [lc EXCEPT !.state = "stateCode"], done |-> FALSE]

\* ClosingTokens without the test of the reversed token: every declared
\* ending token may close the comment
ClosingTokensAll(lc) == lc.language.multiLineCommentEndingTokens

\* ClosingTokens without the fallback: the reversed token is the only
\* candidate, declared or not
ClosingTokensReversedOnly(lc) == <<reversed(lc.token)>>

\* the candidate closers of (s *stateMultiLineComment) process
ClosingTokens(lc) ==
  LET reversedToken == reversed(lc.token)
      ending == lc.language.multiLineCommentEndingTokens
      reversedTokenIsValid == \E i \in 1..Len(ending) : ending[i] = reversedToken
  IN  IF reversedTokenIsValid THEN <<reversedToken>> ELSE ending

\* stateMultiLineCommentProcess ending the line where the comment ends,
\* whatever follows the end token
stateMultiLineCommentProcessEndsLine(lc) ==
  LET first == FirstToken(lc.currLine, ClosingTokens(lc),
                          [idx |-> Len(lc.currLine), token |-> <<>>])
  IN  IF first.idx < Len(lc.currLine)
        THEN [lc |-> [lc EXCEPT
                        !.token = <<>>,
                        !.currLine = CutAfter(lc.currLine, first.idx, first.token)],
              done |-> TRUE]
        ELSE [lc |-> lc, done |-> TRUE]

\* stateMultiLineCommentProcess returning at once, as the two other states
\* do, when the line is empty or begins with an inline-comment token
stateMultiLineCommentProcessSkips(lc) ==
  LET first == FirstToken(lc.currLine, ClosingTokens(lc),
                          [idx |-> Len(lc.currLine), token |-> <<>>])
  IN  IF lineIsEmpty(lc) \/ inlineCommentIndex(lc) = 0
        THEN [lc |-> lc, done |-> TRUE]
      ELSE IF first.idx < Len(lc.currLine)
        THEN [lc |-> [lc EXCEPT
                        !.token = <<>>,
                        !.currLine = CutAfter(lc.currLine, first.idx, first.token),
                        !.state = "stateCode"],
              done |-> FALSE]
        ELSE [lc |-> lc, done |-> TRUE]

\* stateMultiLineCommentProcess without s.token = "": the token of the
\* comment that ended stays stored
stateMultiLineCommentProcessKeepsToken(lc) ==
  LET first == FirstToken(lc.currLine, ClosingTokens(lc),
                          [idx |-> Len(lc.currLine), token |-> <<>>])
  IN  IF first.idx < Len(lc.currLine)
        THEN [lc |-> [lc EXCEPT
                        !.currLine = CutAfter(lc.currLine, first.idx, first.token),
                        !.state = "stateCode"],
              done |-> FALSE]
        ELSE [lc |-> lc, done |-> TRUE]

\* (s *stateMultiLineComment) process(lc)
stateMultiLineCommentProcess(lc) ==
  LET first == FirstToken(lc.currLine, ClosingTokens(lc),
                          [idx |-> Len(lc.currLine), token |-> <<>>])
  IN  IF first.idx < Len(lc.currLine)
        THEN [lc |-> [lc EXCEPT
                        !.token = <<>>,
                        !.currLine = CutAfter(lc.currLine, first.idx, first.token),
                        !.state = "stateCode"],
              done |-> FALSE]
        ELSE [lc |-> lc, done |-> TRUE]

\* stateCodeProcess without the mark of a line whose block comment starts
\* after its beginning
stateCodeProcessNoMark(lc) ==
  LET firstInlineCommTokenIdx == inlineCommentIndex(lc)
      first == FirstToken(lc.currLine, lc.language.multiLineCommentStartingTokens,
                          [idx |-> Len(lc.currLine), token |-> <<>>])
  IN  IF lineIsEmpty(lc) \/ firstInlineCommTokenIdx = 0
        THEN [lc |-> lc, done |-> TRUE]
      ELSE IF first.idx < firstInlineCommTokenIdx
        THEN [lc |-> [lc EXCEPT
                        !.currLine = CutAfter(lc.currLine, first.idx, first.token),
                        !.token = first.token,
                        !.state = "stateMultiLineComment"],
              done |-> FALSE]
      ELSE [lc |-> [lc EXCEPT !.currLineCounted = TRUE], done |-> TRUE]

\* stateCodeProcess clearing the mark of the line when what is left of it is
\* empty or commented out
stateCodeProcessDiscards(lc) ==
  LET firstInlineCommTokenIdx == inlineCommentIndex(lc)
      first == FirstToken(lc.currLine, lc.language.multiLineCommentStartingTokens,
                          [idx |-> Len(lc.currLine), token |-> <<>>])
  IN  IF lineIsEmpty(lc) \/ firstInlineCommTokenIdx = 0
        THEN [lc |-> [lc EXCEPT !.currLineCounted = FALSE], done |-> TRUE]
      ELSE IF first.idx < firstInlineCommTokenIdx
        THEN [lc |-> [lc EXCEPT
                        !.currLineCounted = IF first.idx > 0 THEN TRUE ELSE @,
                        !.currLine = CutAfter(lc.currLine, first.idx, first.token),
                        !.token = first.token,
                        !.state = "stateMultiLineComment"],
              done |-> FALSE]
      ELSE [lc |-> [lc EXCEPT !.currLineCounted = TRUE], done |-> TRUE]

\* stateCodeProcess opening a block comment wherever a starting token is
\* found, before or behind the first inline-comment token
stateCodeProcessIgnoresInline(lc) ==
  LET firstInlineCommTokenIdx == inlineCommentIndex(lc)
      first == FirstToken(lc.currLine, lc.language.multiLineCommentStartingTokens,
                          [idx |-> Len(lc.currLine), token |-> <<>>])
  IN  IF lineIsEmpty(lc) \/ firstInlineCommTokenIdx = 0
        THEN [lc |-> lc, done |-> TRUE]
      ELSE IF first.idx < Len(lc.currLine)
        THEN [lc |-> [lc EXCEPT
                        !.currLineCounted = IF first.idx > 0 THEN TRUE ELSE @,
                        !.currLine = CutAfter(lc.currLine, first.idx, first.token),
                        !.token = first.token,
                        !.state = "stateMultiLineComment"],
              done |-> FALSE]
      ELSE [lc |-> [lc EXCEPT !.currLineCounted = TRUE], done |-> TRUE]

\* stateCodeProcess adding to loc wherever it marks the line
stateCodeProcessCountsAtMark(lc) ==
  LET firstInlineCommTokenIdx == inlineCommentIndex(lc)
      first == FirstToken(lc.currLine, lc.language.multiLineCommentStartingTokens,
                          [idx |-> Len(lc.currLine), token |-> <<>>])
  IN  IF lineIsEmpty(lc) \/ firstInlineCommTokenIdx = 0
        THEN [lc |-> lc, done |-> TRUE]
      ELSE IF first.idx < firstInlineCommTokenIdx
        THEN [lc |-> [lc EXCEPT
                        !.currLineCounted = IF first.idx > 0 THEN TRUE ELSE @,
                        !.loc = IF first.idx > 0 THEN @ + 1 ELSE @,
                        !.currLine = CutAfter(lc.currLine, first.idx, first.token),
                        !.token = first.token,
                        !.state = "stateMultiLineComment"],
              done |-> FALSE]
      ELSE [lc |-> [lc EXCEPT !.currLineCounted = TRUE, !.loc = @ + 1],
            done |-> TRUE]

\* (s *stateCode) process(lc)
stateCodeProcess(lc) ==
  LET firstInlineCommTokenIdx == inlineCommentIndex(lc)
      first == FirstToken(lc.currLine, lc.language.multiLineCommentStartingTokens,
                          [idx |-> Len(lc.currLine), token |-> <<>>])
  IN  IF lineIsEmpty(lc) \/ firstInlineCommTokenIdx = 0
        THEN [lc |-> lc, done |-> TRUE]
      ELSE IF first.idx < firstInlineCommTokenIdx
        THEN [lc |-> [lc EXCEPT
                        !.currLineCounted = IF first.idx > 0 THEN TRUE ELSE @,
                        !.currLine = CutAfter(lc.currLine, first.idx, first.token),
                        !.token = first.token,
                        !.state = "stateMultiLineComment"],
              done |-> FALSE]
      ELSE [lc |-> [lc EXCEPT !.currLineCounted = TRUE], done |-> TRUE]

\* lc.state.process(lc): the dispatch on the dynamic type of lc.state
process(lc) ==
  CASE lc.state = "stateInitial"          -> stateInitialProcess(lc)
    [] lc.state = "stateCode"             -> stateCodeProcess(lc)
    [] lc.state = "stateMultiLineComment" -> stateMultiLineCommentProcess(lc)

\* ScanLine without the call of strings.TrimLeft
ScanLineNoTrim(lc, text) ==
  [lc EXCEPT !.fileLinesCnt = @ + 1,
             !.currLine = text,
             !.currLineCounted = FALSE]

\* ScanLine starting every line in stateCode
ScanLineResetsState(lc, text) ==
  [lc EXCEPT !.fileLinesCnt = @ + 1,
             !.currLine = TrimLeft(text),
             !.currLineCounted = FALSE,
             !.state = "stateCode"]

\* the head of the body of Count's loop: one line has been scanned
ScanLine(lc, text) ==
  [lc EXCEPT !.fileLinesCnt = @ + 1,
             !.currLine = TrimLeft(text),
             !.currLineCounted = FALSE]

\* the tail of the body of Count's loop: the line is done
EndLine(lc) == IF lc.currLineCounted THEN [lc EXCEPT !.loc = @ + 1] ELSE lc

\* for !lc.state.process(lc) {}
RECURSIVE ProcessLine(_)
ProcessLine(lc) ==
  LET r == process(lc) IN IF r.done THEN r.lc ELSE ProcessLine(r.lc)

\* the loop of Count over the lines the scanner delivers
RECURSIVE CountLines(_, _)
CountLines(lc, lines) ==
  IF lines = <<>> THEN lc
  ELSE CountLines(EndLine(ProcessLine(ScanLine(lc, Head(lines)))), Tail(lines))

\* Count returning 0, not lc.loc, with the error
CountDropsPartial(lc, lines, readErr) ==
  IF readErr # -1
    THEN [loc |-> 0, err |-> TRUE]
    ELSE [loc |-> CountLines(lc, lines).loc, err |-> FALSE]

\* lc.Count() on a file of the given lines whose reading fails after readErr
\* lines have been delivered (never, if readErr = -1): the pair (loc, err)
Count(lc, lines, readErr) ==
  IF readErr # -1
    THEN [loc |-> CountLines(lc, Take(lines, readErr)).loc, err |-> TRUE]
    ELSE [loc |-> CountLines(lc, lines).loc, err |-> FALSE]

(***************************************************************************)
(* The state of the model.                                                 *)
(***************************************************************************)
VARIABLES
  \* LocCounter.Count on one file
  lc,          \* the LocCounter
  lcpc,        \* where Count is: "off", "scan", "process" or "returned"
  raw,         \* the physical line the scanner delivered last
  ref,         \* the reference classifier's reading of the lines delivered
  cret,        \* what Count returned: the pair (loc, err)
  input,       \* locFile on one opened file: its base name and its lines
  \* CountLoc on one root
  fs,          \* the directory tree on disk: it is not modified
  pc,          \* where the task of each filesystem entry is
  result,      \* the DirResult each locDir invocation is building
  fileResult,  \* the *FileResult each locFile invocation returns
  count,       \* locDir's count of the results still to receive
  todo,        \* the entries of fileinfoz locDir has still to range over
  handles,     \* the entries whose *os.File is open
  closed,      \* the locDir invocations that closed their two channels
  out,         \* what CountLoc returned
  \* gloccMain on the command-line arguments
  args,         \* the arguments: the tree each path names
  task,         \* where the goroutine of each argument is
  sent,         \* the DirResult each goroutine sends
  mpc,          \* where gloccMain is: "start", "range", "returned", "panic"
  totalResults, \* the DirResult gloccMain is building
  resultsCount  \* gloccMain's count of the results received

countVars == <<lc, lcpc, raw, ref, cret, input>>
walkVars == <<fs, pc, result, fileResult, count, todo, handles, closed, out>>
mainVars == <<args, task, sent, mpc, totalResults, resultsCount>>
vars == <<lc, lcpc, raw, ref, cret, input,
          fs, pc, result, fileResult, count, todo, handles, closed, out,
          args, task, sent, mpc, totalResults, resultsCount>>

(***************************************************************************)
(* LocCounter.Count, one call of process at a time.                        *)
(***************************************************************************)
\* the characters of the files counted step by step
Alphabet == {"/", "*", " ", "a"}

\* the physical lines of at most n characters
RECURSIVE LinesUpTo(_)
LinesUpTo(n) ==
  IF n = 0 THEN {<<>>}
  ELSE LET shorter == LinesUpTo(n - 1)
       IN  shorter \cup { Append(l, c) : l \in { s \in shorter : Len(s) = n - 1 },
                                         c \in Alphabet }

\* longer lines: a block comment opened and closed within the line
LongLines ==
  { <<"\t", " ", "/", "*", "*", "/", "\t">>,
    <<" ", "\t", "a", "\t">>,
    <<"/", "*", "*", "/", "a">>,
    <<"a", " ", "/", "*", " ", "a", " ", "*", "/", " ", "a">>,
    <<"/", "*", " ", "/", "/", " ", "*", "/", " ">>,
    <<"a", "/", "*", "/", " ", "*", "/">> }

Lines == LinesUpTo(MaxLineLen) \cup LongLines

\* the extensions of the files counted step by step
CountExts == { <<"g", "o">> }

NoLocCounter == [state |-> "none"]
NoCount == [loc |-> -1, err |-> FALSE]
NoInput == [name |-> <<>>, lines |-> <<>>]

(***************************************************************************)
(* The reference the line verdicts are compared with: a scanner of the raw *)
(* physical line, one character at a time, for the comment tokens //, /*   *)
(* and */.  A line is code when a character other than a space or a tab    *)
(* lies outside every comment.                                             *)
(***************************************************************************)
\* the rest s of a line, begun inside a block comment or not, with a code
\* character seen so far or not: code is the verdict, inBlock how it ends
RECURSIVE RefScan(_, _, _)
RefScan(s, inBlock, code) ==
  IF s = <<>> THEN [inBlock |-> inBlock, code |-> code]
  ELSE IF inBlock
    THEN IF HasPrefix(s, <<"*", "/">>)
           THEN RefScan(Drop(s, 2), FALSE, code)
           ELSE RefScan(Tail(s), TRUE, code)
  ELSE IF HasPrefix(s, <<"/", "/">>) THEN [inBlock |-> FALSE, code |-> code]
  ELSE IF HasPrefix(s, <<"/", "*">>) THEN RefScan(Drop(s, 2), TRUE, code)
  ELSE RefScan(Tail(s), FALSE, code \/ Head(s) \notin Blank)

\* the reference after one more physical line
RefLine(r, text) ==
  LET v == RefScan(text, r.inBlock, FALSE)
  IN  [inBlock |-> v.inBlock, count |-> r.count + (IF v.code THEN 1 ELSE 0)]

RefInit == [inBlock |-> FALSE, count |-> 0]

\* fsc.Scan() delivers a line: the head of the loop's body
Scan(text) ==
  /\ lcpc = "scan"
  /\ lc.fileLinesCnt < MaxLines
  /\ lc' = ScanLine(lc, text)
  /\ raw' = text
  /\ ref' = RefLine(ref, text)
  /\ lcpc' = "process"
  /\ UNCHANGED <<cret, input>>
  /\ UNCHANGED walkVars
  /\ UNCHANGED mainVars

\* one call of lc.state.process(lc); when it returns true, the rest of the
\* loop's body
Process ==
  /\ lcpc = "process"
  /\ LET r == process(lc)
     IN  IF r.done
           THEN lc' = EndLine(r.lc) /\ lcpc' = "scan"
           ELSE lc' = r.lc /\ lcpc' = "process"
  /\ UNCHANGED <<raw, ref, cret, input>>
  /\ UNCHANGED walkVars
  /\ UNCHANGED mainVars

\* fsc.Scan() returns false, at the end of the file or on a read error, and
\* Count returns
CountReturn(err) ==
  /\ lcpc = "scan"
  /\ cret' = [loc |-> lc.loc, err |-> err]
  /\ lcpc' = "returned"
  /\ UNCHANGED <<lc, raw, ref, input>>
  /\ UNCHANGED walkVars
  /\ UNCHANGED mainVars

CountNext ==
  \/ \E text \in Lines : Scan(text)
  \/ Process
  \/ \E err \in BOOLEAN : CountReturn(err)

(***************************************************************************)
(* The directory tree on disk.                                             *)
(*                                                                         *)
(* Entry 0 is the root handed to CountLoc, entries 1..fs.n lie below it.   *)
(* An entry has a kind ("dir", "file", "other" for a symlink, device or    *)
(* socket, "absent" for a root that cannot be statted), a name, the        *)
(* failures the operating system answers with (openErr: os.Open fails,     *)
(* readdirErr: dir.Readdir fails) and, for a file, its lines (body) and    *)
(* the number of lines delivered before reading fails (readErr, -1 if it   *)
(* does not fail).                                                         *)
(***************************************************************************)
GoBody == << <<"p", "a", "c", "k", "a", "g", "e", " ", "p">>, <<"/", "/", " ", "c", "o", "m", "m", "e", "n", "t">>, <<"f", "u", "n", "c", " ", "f", "(", ")", " ", "{", "}">> >>
PyBody == << <<"\"", "\"", "\"", "d", "o", "c", "\"", "\"", "\"">>, <<"x", " ", "=", " ", "1">> >>
ZeroBody == << <<"/", "/", " ", "n", "o", "t", "h", "i", "n", "g">>, <<>> >>

Dir(name, openErr, readdirErr) ==
  [kind |-> "dir", name |-> name, openErr |-> openErr,
   readdirErr |-> readdirErr, body |-> <<>>, readErr |-> -1]

File(name, openErr, body, readErr) ==
  [kind |-> "file", name |-> name, openErr |-> openErr,
   readdirErr |-> FALSE, body |-> body, readErr |-> readErr]

Other(kind, name) ==
  [kind |-> kind, name |-> name, openErr |-> FALSE,
   readdirErr |-> FALSE, body |-> <<>>, readErr |-> -1]

\* the entries a directory of the model may hold
Menu ==
  << Dir(<<"s", "u", "b">>, FALSE, FALSE),
     Dir(<<".", "g", "i", "t">>, FALSE, FALSE),
     Dir(<<"l", "o", "c", "k", "e", "d">>, TRUE, FALSE),
     Dir(<<"b", "r", "o", "k", "e", "n">>, FALSE, TRUE),
     File(<<"a", ".", "g", "o">>, FALSE, GoBody, -1),
     File(<<"b", ".", "p", "y">>, FALSE, PyBody, -1),
     File(<<"z", ".", "g", "o">>, FALSE, ZeroBody, -1),
     File(<<"x", ".", "o">>, FALSE, GoBody, -1),
     File(<<"p", ".", "g", "o">>, TRUE, GoBody, -1),
     File(<<"e", ".", "g", "o">>, FALSE, GoBody, 2),
     Other("other", <<"l", "n", "k">>) >>

\* the roots CountLoc of the model may be given
RootMenu ==
  << Dir(<<"t", "o", "p">>, FALSE, FALSE),
     Dir(<<".", "g", "i", "t">>, FALSE, FALSE),
     Dir(<<"l", "o", "c", "k", "e", "d">>, TRUE, FALSE),
     File(<<"a", ".", "g", "o">>, FALSE, GoBody, -1),
     File(<<"x", ".", "o">>, FALSE, GoBody, -1),
     File(<<"p", ".", "g", "o">>, TRUE, GoBody, -1),
     File(<<"e", ".", "g", "o">>, FALSE, GoBody, 2),
     Other("other", <<"d", "e", "v">>),
      Other("absent", <<"g", "o", "n", "e">>) >>

\* entry t.n + 1 may be item m of Menu in the directory p: p is a directory,
\* the entries are numbered level by level and, within a directory, in the
\* order of Menu, so that the names within a directory differ
ValidNext(t, p, m) ==
  /\ p > 0 => Menu[t.item[p]].kind = "dir"
  /\ t.n > 0 => /\ t.parent[t.n] <= p
                /\ t.parent[t.n] = p => t.item[t.n] < m

\* the trees of k entries below the root: entry i lies in the directory
\* parent[i] < i
RECURSIVE TreesOf(_)
TreesOf(k) ==
  IF k = 0
    THEN { [n |-> 0, root |-> r, parent |-> <<>>, item |-> <<>>] :
             r \in 1..Len(RootMenu) }
    ELSE LET smaller == { u \in TreesOf(k - 1) : RootMenu[u.root].kind = "dir" }
         IN  { [n |-> k, root |-> c[1].root,
                parent |-> Append(c[1].parent, c[2]),
                item |-> Append(c[1].item, c[3])] :
                 c \in { d \in smaller \X (0..(k - 1)) \X (1..Len(Menu)) :
                           ValidNext(d[1], d[2], d[3]) } }

Trees == UNION { TreesOf(k) : k \in 0..MaxEntries }

NoTree == [n |-> 0, root |-> 0, parent |-> <<>>, item |-> <<>>]

\* the entry numbered i
EntryOf(fsys, i) == IF i = 0 THEN RootMenu[fsys.root] ELSE Menu[fsys.item[i]]

\* the entries of the directory numbered p, in the order Readdir lists them
RECURSIVE ListFrom(_, _, _)
ListFrom(fsys, p, i) ==
  IF i > fsys.n THEN <<>>
  ELSE IF fsys.parent[i] = p THEN <<i>> \o ListFrom(fsys, p, i + 1)
  ELSE ListFrom(fsys, p, i + 1)

Readdir(fsys, p) == ListFrom(fsys, p, 1)

\* the working directory filepath.Abs resolves against
Cwd == << <<"w">> >>

\* filepath.Abs(root), as the sequence of the path's elements
Abs(root) == Cwd \o root

\* the root string CountLoc is given: the name of entry 0
RootArg(fsys) == << EntryOf(fsys, 0).name >>

\* PathOf joining down from root as given, not from filepath.Abs(root)
RECURSIVE PathOfRelative(_, _)
PathOfRelative(fsys, i) ==
  IF i = 0 THEN RootArg(fsys)
  ELSE Append(PathOfRelative(fsys, fsys.parent[i]), EntryOf(fsys, i).name)

\* the path locDir or locFile is given for entry i: filepath.Join down from
\* filepath.Abs(root)
RECURSIVE PathOf(_, _)
PathOf(fsys, i) ==
  IF i = 0 THEN Abs(RootArg(fsys))
  ELSE Append(PathOf(fsys, fsys.parent[i]), EntryOf(fsys, i).name)

\* filepath.Base(path)
Base(path) == path[Len(path)]

\* filepath.Ext(name): the suffix from the final dot on, or empty
Ext(name) ==
  IF \E i \in 1..Len(name) : name[i] = "."
    THEN LET last == CHOOSE i \in 1..Len(name) :
                       name[i] = "." /\ \A j \in (i + 1)..Len(name) : name[j] # "."
         IN  Drop(name, last - 1)
    ELSE <<>>

(***************************************************************************)
(* count.go: the results.                                                  *)
(***************************************************************************)
\* make(map[string]int)
EmptyMap == [l \in {} |-> 0]

\* the DirResult literal CountLoc and locDir start from
EmptyDirResult(name) ==
  [Name |-> name, Subdirs |-> <<>>, Files |-> <<>>, Summary |-> EmptyMap]

\* var result *FileResult; a Name is a path, the sequence of its elements
NilFileResult == [nil |-> TRUE, Name |-> <<>>, Loc |-> EmptyMap]

\* MergeSummary with = in place of +=: the count received last wins
MergeSummaryOverwrite(summary, m) ==
  [l \in DOMAIN summary \cup DOMAIN m |->
     IF l \in DOMAIN m THEN m[l] ELSE summary[l]]

\* the merge of a received result's counts into result.Summary
MergeSummary(summary, m) ==
  [l \in DOMAIN summary \cup DOMAIN m |->
     IF l \in DOMAIN m
       THEN IF l \in DOMAIN summary THEN summary[l] + m[l] ELSE m[l]
       ELSE summary[l]]

\* ReceiveDir without the loop over dr.Summary
ReceiveDirNoMerge(res, dr) == [res EXCEPT !.Subdirs = Append(@, dr)]

\* case dr := <-dirResultsChan
ReceiveDir(res, dr) ==
  [res EXCEPT !.Subdirs = Append(@, dr),
              !.Summary = MergeSummary(@, dr.Summary)]

\* ReceiveFile without the loop over fr.Loc
ReceiveFileNoMerge(res, fr) ==
  IF fr.nil THEN res
  ELSE [res EXCEPT !.Files = Append(@, [Name |-> fr.Name, Loc |-> fr.Loc])]

\* case fr := <-fileResultsChan
ReceiveFile(res, fr) ==
  IF fr.nil THEN res
  ELSE [res EXCEPT !.Files = Append(@, [Name |-> fr.Name, Loc |-> fr.Loc]),
                   !.Summary = MergeSummary(@, fr.Loc)]

\* IsGit comparing rootPath itself, not its last element
IsGitWholePath(path) == path = << <<".", "g", "i", "t">> >>

\* IsGit comparing with "git"
IsGitNoDot(path) == Base(path) = <<"g", "i", "t">>

\* locDir's test of the directory's name
IsGit(path) == Base(path) = <<".", "g", "i", "t">>

\* locFileExt testing the two prefixes before the extension
locFileExtPrefixFirst(baseName) ==
  IF HasPrefix(baseName, <<"M", "a", "k", "e", "f", "i", "l", "e">>) THEN <<"M", "a", "k", "e", "f", "i", "l", "e">>
  ELSE IF HasPrefix(baseName, <<"D", "o", "c", "k", "e", "r", "f", "i", "l", "e">>) THEN <<"D", "o", "c", "k", "e", "r", "f", "i", "l", "e">>
  ELSE IF Ext(baseName) = <<>> THEN <<>>
  ELSE Drop(Ext(baseName), 1)

\* locFile's choice of the key looked up in languages
locFileExt(baseName) ==
  LET ext == Ext(baseName)
  IN  IF ext = <<>>
        THEN IF HasPrefix(baseName, <<"M", "a", "k", "e", "f", "i", "l", "e">>) THEN <<"M", "a", "k", "e", "f", "i", "l", "e">>
             ELSE IF HasPrefix(baseName, <<"D", "o", "c", "k", "e", "r", "f", "i", "l", "e">>) THEN <<"D", "o", "c", "k", "e", "r", "f", "i", "l", "e">>
             ELSE <<>>
        ELSE Drop(ext, 1)

\* locFileResult returning an empty FileResult, not nil, when NewLocCounter
\* fails
locFileResultNeverNil(e) ==
  LET baseName == e.name
      ext == locFileExt(baseName)
  IN  IF ~NewLocCounterValid(ext)
        THEN [nil |-> FALSE, Name |-> <<baseName>>, Loc |-> EmptyMap]
      ELSE LET c == Count(NewLocCounter(ext), e.body, e.readErr)
           IN  [nil |-> FALSE, Name |-> <<baseName>>,
                Loc |-> [l \in {languages[ext].name} |-> c.loc]]

\* locFileResult leaving a count of 0 out of Loc, as the omitempty of the
\* encoders leaves out an empty value
locFileResultOmitsZero(e) ==
  LET baseName == e.name
      ext == locFileExt(baseName)
  IN  IF ~NewLocCounterValid(ext) THEN NilFileResult
      ELSE LET c == Count(NewLocCounter(ext), e.body, e.readErr)
           IN  [nil |-> FALSE, Name |-> <<baseName>>,
                Loc |-> [l \in { n \in {languages[ext].name} : c.loc # 0 } |-> c.loc]]

\* locFile on an opened file: the *FileResult returned
locFileResult(e) ==
  LET baseName == e.name
      ext == locFileExt(baseName)
  IN  IF ~NewLocCounterValid(ext) THEN NilFileResult
      ELSE LET c == Count(NewLocCounter(ext), e.body, e.readErr)
           IN  [nil |-> FALSE, Name |-> <<baseName>>,
                Loc |-> [l \in {languages[ext].name} |-> c.loc]]

\* the files of the model
ModelFiles ==
  { Menu[m] : m \in { k \in 1..Len(Menu) : Menu[k].kind = "file" } }
  \cup { RootMenu[r] : r \in { k \in 1..Len(RootMenu) : RootMenu[k].kind = "file" } }

\* locFileResult of every file of the model, computed once
locFileResults == { <<e, locFileResult(e)>> : e \in ModelFiles }

\* locFile on the opened file e of the model
locFileOf(e) == (CHOOSE p \in locFileResults : p[1] = e)[2]

\* CountLocBranch without the check of os.Stat's error
CountLocBranchNoErrCheck(e) ==
  CASE e.kind = "file" -> "file"
    [] OTHER           -> "dir"

\* the branch CountLoc takes on what os.Stat answers
CountLocBranch(e) ==
  CASE e.kind = "absent" -> "err"
    [] e.kind = "dir"    -> "dir"
    [] e.kind = "file"   -> "file"
    [] OTHER             -> "neither"

(***************************************************************************)
(* count.go: CountLoc, locDir and locFile, one goroutine per entry.        *)
(*                                                                         *)
(* pc[i] is "idle" until the goroutine of entry i is spawned and "done"    *)
(* once its send has been received.  Entry 0 is run by the caller of       *)
(* CountLoc, which ends in "done" (CountLoc returned) or "panic".          *)
(***************************************************************************)
Entries == 0..fs.n

\* where locDir's return leads: into the goroutine's send, or back to CountLoc
DirRet(i) == IF i = 0 THEN "CountLocRet" ELSE "send"

\* where locFile's return leads
FileRet(i) == IF i = 0 THEN "wrap" ELSE "send"

\* CountLoc up to its branch on fileinfo
CountLoc ==
  /\ pc[0] = "CountLoc"
  /\ LET b == CountLocBranch(EntryOf(fs, 0))
     IN  CASE b = "dir"  -> pc' = [pc EXCEPT ![0] = "locDir"] /\ out' = out
           [] b = "file" -> pc' = [pc EXCEPT ![0] = "locFile"] /\ out' = out
           [] OTHER      -> /\ pc' = [pc EXCEPT ![0] = "done"]
                            /\ out' = EmptyDirResult(RootArg(fs))
  /\ UNCHANGED <<fs, result, fileResult, count, todo, handles, closed>>
  /\ UNCHANGED countVars
  /\ UNCHANGED mainVars

\* LocDirOpen going on with the listing when dir.Readdir failed
LocDirOpenNoReaddirCheck(i) ==
  /\ pc[i] = "locDir"
  /\ LET path == PathOf(fs, i)
         e == EntryOf(fs, i)
         list == Readdir(fs, i)
     IN  /\ result' = [result EXCEPT ![i] = EmptyDirResult(path)]
         /\ IF IsGit(path) \/ e.openErr
              THEN /\ pc' = [pc EXCEPT ![i] = DirRet(i)]
                   /\ UNCHANGED <<todo, handles>>
              ELSE /\ pc' = [pc EXCEPT ![i] = IF list = <<>> THEN "gather" ELSE "spawn"]
                   /\ todo' = [todo EXCEPT ![i] = list]
                   /\ handles' = handles \cup {i}
  /\ count' = [count EXCEPT ![i] = 0]
  /\ UNCHANGED <<fs, fileResult, closed, out>>
  /\ UNCHANGED countVars
  /\ UNCHANGED mainVars

\* locDir up to the end of the loop that spawns, when the directory is empty
LocDirOpen(i) ==
  /\ pc[i] = "locDir"
  /\ LET path == PathOf(fs, i)
         e == EntryOf(fs, i)
         list == Readdir(fs, i)
     IN  /\ result' = [result EXCEPT ![i] = EmptyDirResult(path)]
         /\ IF IsGit(path) \/ e.openErr \/ e.readdirErr
              THEN /\ pc' = [pc EXCEPT ![i] = DirRet(i)]
                   /\ UNCHANGED <<todo, handles>>
              ELSE /\ pc' = [pc EXCEPT ![i] = IF list = <<>> THEN "gather" ELSE "spawn"]
                   /\ todo' = [todo EXCEPT ![i] = list]
                   /\ handles' = handles \cup {i}
  /\ count' = [count EXCEPT ![i] = 0]
  /\ UNCHANGED <<fs, fileResult, closed, out>>
  /\ UNCHANGED countVars
  /\ UNCHANGED mainVars

\* SpawnKind without the test of fileinfo.Mode().IsRegular(): whatever is
\* not a directory is handed to locFile
SpawnKindNoRegularCheck(e) ==
  CASE e.kind = "dir" -> "locDir"
    [] OTHER          -> "locFile"

\* the goroutine, if any, locDir's loop spawns for an entry of fileinfoz
SpawnKind(e) ==
  CASE e.kind = "dir"  -> "locDir"
    [] e.kind = "file" -> "locFile"
    [] OTHER           -> "idle"

\* Spawn without count++ for a regular file
SpawnNoCountForFile(i) ==
  /\ pc[i] = "spawn"
  /\ LET c == Head(todo[i])
         k == SpawnKind(EntryOf(fs, c))
     IN  /\ pc' = [pc EXCEPT ![c] = k,
                             ![i] = IF Len(todo[i]) = 1 THEN "gather" ELSE "spawn"]
         /\ count' = [count EXCEPT ![i] = IF k = "locDir" THEN @ + 1 ELSE @]
  /\ todo' = [todo EXCEPT ![i] = Tail(@)]
  /\ UNCHANGED <<fs, result, fileResult, handles, closed, out>>
  /\ UNCHANGED countVars
  /\ UNCHANGED mainVars

\* one iteration of locDir's loop over fileinfoz
Spawn(i) ==
  /\ pc[i] = "spawn"
  /\ LET c == Head(todo[i])
         k == SpawnKind(EntryOf(fs, c))
     IN  /\ pc' = [pc EXCEPT ![c] = k,
                             ![i] = IF Len(todo[i]) = 1 THEN "gather" ELSE "spawn"]
         /\ count' = [count EXCEPT ![i] = IF k = "idle" THEN @ ELSE @ + 1]
  /\ todo' = [todo EXCEPT ![i] = Tail(@)]
  /\ UNCHANGED <<fs, result, fileResult, handles, closed, out>>
  /\ UNCHANGED countVars
  /\ UNCHANGED mainVars

\* SelectCase of a loop that receives from dirResultsChan only
SelectCaseDirOnly(e) ==
  CASE e.kind = "dir" -> "dirResultsChan"
    [] OTHER          -> "none"

\* the channel, if any, locDir's select can receive the send of entry c on
SelectCase(e) ==
  CASE e.kind = "dir"  -> "dirResultsChan"
    [] e.kind = "file" -> "fileResultsChan"
    [] OTHER           -> "none"

\* Receive with result.Summary sharing the map of the first result received:
\* the merge of the loop's later iterations writes into the map of that
\* result as well
ReceiveSharedSummary(i, c) ==
  /\ pc[i] = "gather"
  /\ count[i] > 0
  /\ c # 0 /\ fs.parent[c] = i
  /\ pc[c] = "send"
  /\ SelectCase(EntryOf(fs, c)) # "none"
  /\ LET merged == IF SelectCase(EntryOf(fs, c)) = "dirResultsChan"
                     THEN ReceiveDir(result[i], result[c])
                     ELSE ReceiveFile(result[i], fileResult[c])
     IN  result' = [d \in DOMAIN result |->
                      IF d = i THEN merged
                      ELSE IF /\ d # 0 /\ fs.parent[d] = i /\ pc[d] = "done"
                              /\ result[i].Subdirs # <<>>
                              /\ result[i].Subdirs[1].Name = result[d].Name
                        THEN [result[d] EXCEPT !.Summary = merged.Summary]
                      ELSE result[d]]
  /\ count' = [count EXCEPT ![i] = @ - 1]
  /\ pc' = [pc EXCEPT ![c] = "done"]
  /\ UNCHANGED <<fs, fileResult, todo, handles, closed, out>>
  /\ UNCHANGED countVars
  /\ UNCHANGED mainVars

\* one iteration of locDir's loop that gathers: the send of the goroutine of
\* entry c meets the select of locDir(i)
Receive(i, c) ==
  /\ pc[i] = "gather"
  /\ count[i] > 0
  /\ c # 0 /\ fs.parent[c] = i
  /\ pc[c] = "send"
  /\ SelectCase(EntryOf(fs, c)) # "none"
  /\ result' = [result EXCEPT ![i] =
                  IF SelectCase(EntryOf(fs, c)) = "dirResultsChan"
                    THEN ReceiveDir(@, result[c])
                    ELSE ReceiveFile(@, fileResult[c])]
  /\ count' = [count EXCEPT ![i] = @ - 1]
  /\ pc' = [pc EXCEPT ![c] = "done"]
  /\ UNCHANGED <<fs, fileResult, todo, handles, closed, out>>
  /\ UNCHANGED countVars
  /\ UNCHANGED mainVars

\* LocDirReturn after a loop that gathers while count > 1: the last result
\* is not waited for
LocDirReturnOneEarly(i) ==
  /\ pc[i] = "gather"
  /\ count[i] <= 1
  /\ closed' = closed \cup {i}
  /\ handles' = handles \ {i}
  /\ pc' = [pc EXCEPT ![i] = DirRet(i)]
  /\ UNCHANGED <<fs, result, fileResult, count, todo, out>>
  /\ UNCHANGED countVars
  /\ UNCHANGED mainVars

\* locDir after its loop that gathers: the two close calls, the deferred
\* dir.Close and the return
LocDirReturn(i) ==
  /\ pc[i] = "gather"
  /\ count[i] = 0
  /\ closed' = closed \cup {i}
  /\ handles' = handles \ {i}
  /\ pc' = [pc EXCEPT ![i] = DirRet(i)]
  /\ UNCHANGED <<fs, result, fileResult, count, todo, out>>
  /\ UNCHANGED countVars
  /\ UNCHANGED mainVars

\* locFile up to os.Open
LocFileOpen(i) ==
  /\ pc[i] = "locFile"
  /\ IF EntryOf(fs, i).openErr
       THEN /\ pc' = [pc EXCEPT ![i] = FileRet(i)]
            /\ fileResult' = [fileResult EXCEPT ![i] = NilFileResult]
            /\ UNCHANGED handles
       ELSE /\ pc' = [pc EXCEPT ![i] = "count"]
            /\ handles' = handles \cup {i}
            /\ UNCHANGED fileResult
  /\ UNCHANGED <<fs, result, count, todo, closed, out>>
  /\ UNCHANGED countVars
  /\ UNCHANGED mainVars

\* LocFileCount leaving the file open when NewLocCounter fails
LocFileCountNoClose(i) ==
  /\ pc[i] = "count"
  /\ fileResult' = [fileResult EXCEPT ![i] = locFileOf(EntryOf(fs, i))]
  /\ handles' = IF locFileOf(EntryOf(fs, i)).nil THEN handles ELSE handles \ {i}
  /\ pc' = [pc EXCEPT ![i] = FileRet(i)]
  /\ UNCHANGED <<fs, result, count, todo, closed, out>>
  /\ UNCHANGED countVars
  /\ UNCHANGED mainVars

\* locFile from os.Open on: NewLocCounter, Count, the deferred file.Close and
\* the return
LocFileCount(i) ==
  /\ pc[i] = "count"
  /\ fileResult' = [fileResult EXCEPT ![i] = locFileOf(EntryOf(fs, i))]
  /\ handles' = handles \ {i}
  /\ pc' = [pc EXCEPT ![i] = FileRet(i)]
  /\ UNCHANGED <<fs, result, count, todo, closed, out>>
  /\ UNCHANGED countVars
  /\ UNCHANGED mainVars

\* CountLoc after locDir(rootPath) returned
CountLocReturn ==
  /\ pc[0] = "CountLocRet"
  /\ out' = result[0]
  /\ pc' = [pc EXCEPT ![0] = "done"]
  /\ UNCHANGED <<fs, result, fileResult, count, todo, handles, closed>>
  /\ UNCHANGED countVars
  /\ UNCHANGED mainVars

\* CountLoc after locFile(rootPath) returned: *fileResult panics when
\* fileResult is nil
CountLocWrap ==
  /\ pc[0] = "wrap"
  /\ IF fileResult[0].nil
       THEN pc' = [pc EXCEPT ![0] = "panic"] /\ out' = out
       ELSE /\ pc' = [pc EXCEPT ![0] = "done"]
            /\ out' = [Name    |-> fileResult[0].Name,
                       Subdirs |-> <<>>,
                       Files   |-> << [Name |-> fileResult[0].Name,
                                       Loc  |-> fileResult[0].Loc] >>,
                       Summary |-> fileResult[0].Loc]
  /\ UNCHANGED <<fs, result, fileResult, count, todo, handles, closed>>
  /\ UNCHANGED countVars
  /\ UNCHANGED mainVars

(***************************************************************************)
(* The specifications.                                                     *)
(***************************************************************************)
NoResult == EmptyDirResult(<<>>)

\* CountLoc(root) is called on a tree
Init ==
  /\ fs \in Trees
  /\ pc = [i \in 0..fs.n |-> IF i = 0 THEN "CountLoc" ELSE "idle"]
  /\ result = [i \in 0..fs.n |-> NoResult]
  /\ fileResult = [i \in 0..fs.n |-> NilFileResult]
  /\ count = [i \in 0..fs.n |-> 0]
  /\ todo = [i \in 0..fs.n |-> <<>>]
  /\ handles = {}
  /\ closed = {}
  /\ out = NoResult
  /\ args = <<>>
  /\ task = <<>>
  /\ sent = <<>>
  /\ mpc = "off"
  /\ totalResults = NoResult
  /\ resultsCount = 0
  /\ lc = NoLocCounter
  /\ lcpc = "off"
  /\ raw = <<>>
  /\ ref = RefInit
  /\ cret = NoCount
  /\ input = NoInput

Next ==
  \/ CountLoc
  \/ \E i \in Entries : LocDirOpen(i)
  \/ \E i \in Entries : Spawn(i)
  \/ \E i \in Entries : \E c \in Entries : Receive(i, c)
  \/ \E i \in Entries : LocDirReturn(i)
  \/ \E i \in Entries : LocFileOpen(i)
  \/ \E i \in Entries : LocFileCount(i)
  \/ CountLocReturn
  \/ CountLocWrap

Spec == Init /\ [][Next]_vars

\* goroutines that can run do run
FairSpec == Spec /\ WF_vars(Next)

\* NewLocCounter(file, ext) and Count() on a file read line by line
CountInit ==
  /\ \E ext \in CountExts : lc = NewLocCounter(ext)
  /\ lcpc = "scan"
  /\ raw = <<>>
  /\ ref = RefInit
  /\ cret = NoCount
  /\ input = NoInput
  /\ fs = NoTree
  /\ pc = <<>>
  /\ result = <<>>
  /\ fileResult = <<>>
  /\ count = <<>>
  /\ todo = <<>>
  /\ handles = {}
  /\ closed = {}
  /\ out = NoResult
  /\ args = <<>>
  /\ task = <<>>
  /\ sent = <<>>
  /\ mpc = "off"
  /\ totalResults = NoResult
  /\ resultsCount = 0

CountSpec == CountInit /\ [][CountNext]_vars

(***************************************************************************)
(* locFile on one opened file, for every registered extension: the lookup  *)
(* of the language from the base name, then LocCounter.Count one iteration *)
(* of its loop at a time.                                                  *)
(***************************************************************************)
\* the sequences of at most n elements of S
RECURSIVE SeqsUpTo(_, _)
SeqsUpTo(S, n) ==
  IF n = 0 THEN {<<>>}
  ELSE LET shorter == SeqsUpTo(S, n - 1)
       IN  shorter \cup { Append(f, x) : f \in { g \in shorter : Len(g) = n - 1 },
                                         x \in S }

\* the elements of a sequence
Range(seq) == { seq[k] : k \in 1..Len(seq) }

\* the physical lines of the files of a language: blank lines, a line of
\* code, each comment token alone, a block comment opened and closed within
\* the line, the same between code, and a line commented out
LangLines(lang) ==
  LET starts == lang.multiLineCommentStartingTokens
      ends == lang.multiLineCommentEndingTokens
  IN  { <<>>, <<" ", "\t">>, <<"x">> }
      \cup Range(starts) \cup Range(ends)
      \cup { s \o <<" ", "x", " ">> \o e : s \in Range(starts), e \in Range(ends) }
      \cup { <<"x", " ">> \o starts[1] \o <<" ", "n", " ">> \o ends[1] \o <<" ", "x">> :
               k \in { j \in {1} : starts # <<>> /\ ends # <<>> } }
      \cup { t \o <<"x">> : t \in Range(lang.inlineCommentTokens) }

\* base names besides one per registered extension
ExtraNames ==
  { <<"M", "a", "k", "e", "f", "i", "l", "e">>,
    <<"M", "a", "k", "e", "f", "i", "l", "e", ".", "a", "m">>,
    <<"M", "a", "k", "e", "f", "i", "l", "e", ".", "g", "o">>,
    <<"M", "a", "k", "e", "f", "i", "l", "e", "2">>,
    <<"m", "a", "k", "e", "f", "i", "l", "e">>,
    <<"D", "o", "c", "k", "e", "r", "f", "i", "l", "e">>,
    <<"D", "o", "c", "k", "e", "r", "f", "i", "l", "e", ".", "d", "e", "v">>,
    <<"D", "o", "c", "k", "e", "r", "f", "i", "l", "e", "s">>,
    <<"R", "E", "A", "D", "M", "E">>,
    <<"g", "o">>,
    <<".", "g", "o">>,
    <<"a", ".", "p", "y", ".", "g", "o">>,
    <<"a", ".", "g", "o", ".">>,
    <<"x", ".", "o">> }

\* the base names of the files locFile is given
Names == { <<"f", ".">> \o e : e \in AllExtensions } \cup ExtraNames

\* the files of a base name: every file of at most MaxLines lines of its
\* language
FilesOf(name) ==
  IF NewLocCounterValid(locFileExt(name))
    THEN SeqsUpTo(LangLines(languages[locFileExt(name)]), MaxLines)
    ELSE { <<>>, GoBody }

\* locFile from baseName to NewLocCounter: the nil result when it fails
LocFileNew ==
  /\ lcpc = "new"
  /\ LET ext == locFileExt(input.name)
     IN  IF NewLocCounterValid(ext)
           THEN lc' = NewLocCounter(ext) /\ lcpc' = "loop"
           ELSE lc' = lc /\ lcpc' = "nil"
  /\ UNCHANGED <<raw, ref, cret, input>>
  /\ UNCHANGED walkVars
  /\ UNCHANGED mainVars

\* one iteration of the loop of Count: fsc.Scan() delivers the next line of
\* the file
CountLoop ==
  /\ lcpc = "loop"
  /\ lc.fileLinesCnt < Len(input.lines)
  /\ lc' = EndLine(ProcessLine(ScanLine(lc, input.lines[lc.fileLinesCnt + 1])))
  /\ UNCHANGED <<lcpc, raw, ref, cret, input>>
  /\ UNCHANGED walkVars
  /\ UNCHANGED mainVars

\* fsc.Scan() returns false at the end of the file and Count returns
CountDone ==
  /\ lcpc = "loop"
  /\ lc.fileLinesCnt = Len(input.lines)
  /\ cret' = [loc |-> lc.loc, err |-> FALSE]
  /\ lcpc' = "done"
  /\ UNCHANGED <<lc, raw, ref, input>>
  /\ UNCHANGED walkVars
  /\ UNCHANGED mainVars

FileNext ==
  \/ LocFileNew
  \/ CountLoop
  \/ CountDone

\* locFile(filename) after os.Open succeeded
FileInit ==
  /\ \E name \in Names : \E lines \in FilesOf(name) :
       input = [name |-> name, lines |-> lines]
  /\ lc = NoLocCounter
  /\ lcpc = "new"
  /\ raw = <<>>
  /\ ref = RefInit
  /\ cret = NoCount
  /\ fs = NoTree
  /\ pc = <<>>
  /\ result = <<>>
  /\ fileResult = <<>>
  /\ count = <<>>
  /\ todo = <<>>
  /\ handles = {}
  /\ closed = {}
  /\ out = NoResult
  /\ args = <<>>
  /\ task = <<>>
  /\ sent = <<>>
  /\ mpc = "off"
  /\ totalResults = NoResult
  /\ resultsCount = 0

FileSpec == FileInit /\ [][FileNext]_vars

(***************************************************************************)
(* LocCounter.Count one call of process at a time, for every registered    *)
(* language.                                                               *)
(***************************************************************************)
\* more physical lines of the files of a language: code before a block
\* comment left open, two end tokens, an end token between code, the inline
\* tokens before and after code and the block comment tokens, code before a
\* block comment that is closed at the end of the line or before an inline
\* token, and the line /**/
StepLines(lang) ==
  LET starts == Range(lang.multiLineCommentStartingTokens)
      ends == Range(lang.multiLineCommentEndingTokens)
      inlines == Range(lang.inlineCommentTokens)
  IN  LangLines(lang)
      \cup { <<"x", " ">> \o s : s \in starts }
      \cup { <<" ">> \o s \o <<"\t">> : s \in starts }
      \cup { e \o <<" ">> \o f : e \in ends, f \in ends }
      \cup { <<"n", " ">> \o e \o <<" ", "x">> : e \in ends }
      \cup { <<"n", " ">> \o e \o <<" ">> \o s : e \in ends, s \in starts }
      \cup { t \o <<" ">> \o s : t \in inlines, s \in starts }
      \cup { t \o <<" ">> \o e \o <<" ", "x">> : t \in inlines, e \in ends }
      \cup { t \o <<" ">> \o e : t \in inlines, e \in ends }
      \cup { <<"x", " ">> \o t \o <<" ">> \o s : t \in inlines, s \in starts }
      \cup { <<"x", " ">> \o s \o <<" ">> \o t : t \in inlines, s \in starts }
      \cup { s \o <<" ">> \o e \o <<" ">> \o t : s \in starts, e \in ends, t \in inlines }
      \cup { <<"x", " ">> \o s \o <<" ">> \o e \o <<"\t">> : s \in starts, e \in ends }
      \cup { <<"x", " ">> \o s \o <<" ">> \o e \o <<" ">> \o t :
               s \in starts, e \in ends, t \in inlines }
      \cup { <<"/", "*", "*", "/">> : s \in starts \cap { <<"/", "*">> } }

StepNext ==
  \/ \E text \in StepLines(lc.language) : Scan(text)
  \/ Process
  \/ \E err \in BOOLEAN : CountReturn(err)

\* NewLocCounter(file, ext) for a registered ext, and Count() on a file read
\* line by line
StepInit ==
  /\ \E ext \in AllExtensions : lc = NewLocCounter(ext)
  /\ lcpc = "scan"
  /\ raw = <<>>
  /\ ref = RefInit
  /\ cret = NoCount
  /\ input = NoInput
  /\ fs = NoTree
  /\ pc = <<>>
  /\ result = <<>>
  /\ fileResult = <<>>
  /\ count = <<>>
  /\ todo = <<>>
  /\ handles = {}
  /\ closed = {}
  /\ out = NoResult
  /\ args = <<>>
  /\ task = <<>>
  /\ sent = <<>>
  /\ mpc = "off"
  /\ totalResults = NoResult
  /\ resultsCount = 0

StepSpec == StepInit /\ [][StepNext]_vars

(***************************************************************************)
(* The loop of Count on one line, for every registered language, every     *)
(* state a line can be entered in and every line.                          *)
(***************************************************************************)
\* the starting tokens a block comment can have been opened by: those that
\* neither an inline token nor a starting token declared earlier is a prefix
\* of, which is found at the same index and wins
OpenTokens(lang) ==
  LET starts == lang.multiLineCommentStartingTokens
  IN  { starts[k] : k \in { j \in 1..Len(starts) :
          /\ \A t \in Range(lang.inlineCommentTokens) : ~HasPrefix(starts[j], t)
          /\ \A i \in 1..(j - 1) : ~HasPrefix(starts[j], starts[i]) } }

\* the state and the stored token a line can be entered with
EntryStates(lang) ==
  { [state |-> s, token |-> <<>>] : s \in {"stateInitial", "stateCode"} }
  \cup { [state |-> "stateMultiLineComment", token |-> t] : t \in OpenTokens(lang) }

LineNext == Process

\* the head of the body of Count's loop has delivered a line
LineInit ==
  /\ \E ext \in AllExtensions :
       \E entry \in EntryStates(languages[ext]) :
         \E text \in StepLines(languages[ext]) :
           /\ lc = ScanLine([NewLocCounter(ext) EXCEPT !.state = entry.state,
                                                       !.token = entry.token],
                            text)
           /\ raw = text
  /\ lcpc = "process"
  /\ ref = RefInit
  /\ cret = NoCount
  /\ input = NoInput
  /\ fs = NoTree
  /\ pc = <<>>
  /\ result = <<>>
  /\ fileResult = <<>>
  /\ count = <<>>
  /\ todo = <<>>
  /\ handles = {}
  /\ closed = {}
  /\ out = NoResult
  /\ args = <<>>
  /\ task = <<>>
  /\ sent = <<>>
  /\ mpc = "off"
  /\ totalResults = NoResult
  /\ resultsCount = 0

LineSpec == LineInit /\ [][LineNext]_vars

\* the loop for !lc.state.process(lc) {} goes on while it has not ended
FairLineSpec == LineSpec /\ WF_vars(Process)

(***************************************************************************)
(* Sums over results, and the result of a sequential walk.                 *)
(***************************************************************************)
\* m[l], or 0 when the map has no key l
Get(m, l) == IF l \in DOMAIN m THEN m[l] ELSE 0

\* the sum of Loc[l] over a sequence of FileResults
RECURSIVE SumLoc(_, _)
SumLoc(files, l) ==
  IF files = <<>> THEN 0 ELSE Get(Head(files).Loc, l) + SumLoc(Tail(files), l)

\* the sum of Summary[l] over a sequence of DirResults
RECURSIVE SumSummary(_, _)
SumSummary(subdirs, l) ==
  IF subdirs = <<>> THEN 0
  ELSE Get(Head(subdirs).Summary, l) + SumSummary(Tail(subdirs), l)

\* the names of the supported languages
LanguageNames == { allLanguages[i].name : i \in 1..Len(allLanguages) }

\* Summary is the sum of the Files and of the Subdirs, here and below
RECURSIVE Additive(_)
Additive(dr) ==
  /\ \A l \in LanguageNames \cup DOMAIN dr.Summary :
       Get(dr.Summary, l) = SumLoc(dr.Files, l) + SumSummary(dr.Subdirs, l)
  /\ \A k \in 1..Len(dr.Subdirs) : Additive(dr.Subdirs[k])

\* locDir(i) has returned its DirResult
Returned(i) ==
  /\ EntryOf(fs, i).kind = "dir"
  /\ pc[i] \in {"send", "done", "CountLocRet"}

\* entry i as the tree fsys holds it, or as ov replaces it
EntryOv(fsys, ov, i) == IF i \in DOMAIN ov THEN ov[i] ELSE EntryOf(fsys, i)

\* no entry is replaced
NoOv == [i \in {} |-> 0]

\* a DirResult without the order of its Subdirs and Files, here and below
RECURSIVE Unordered(_)
Unordered(dr) ==
  [Name     |-> dr.Name,
   nSubdirs |-> Len(dr.Subdirs),
   Subdirs  |-> { Unordered(dr.Subdirs[k]) : k \in 1..Len(dr.Subdirs) },
   nFiles   |-> Len(dr.Files),
   Files    |-> { dr.Files[k] : k \in 1..Len(dr.Files) },
   Summary  |-> dr.Summary]

\* the DirResult of the directory i of fsys (with the entries ov replaces,
\* an entry of kind "gone" not being there) when every directory receives
\* the results of its entries one after the other in the order of its listing
RECURSIVE SeqDir(_, _, _), SeqGather(_, _, _, _, _)
SeqDir(fsys, ov, i) ==
  LET e == EntryOv(fsys, ov, i)
      empty == EmptyDirResult(PathOf(fsys, i))
  IN  IF e.name = <<".", "g", "i", "t">> \/ e.openErr \/ e.readdirErr
        THEN empty
        ELSE SeqGather(fsys, ov, i, Readdir(fsys, i), empty)

SeqGather(fsys, ov, i, list, res) ==
  IF list = <<>> THEN res
  ELSE LET c == Head(list)
           e == EntryOv(fsys, ov, c)
       IN  SeqGather(fsys, ov, i, Tail(list),
             CASE e.kind = "dir" -> ReceiveDir(res, SeqDir(fsys, ov, c))
               [] e.kind = "file" ->
                    ReceiveFile(res, IF e.openErr THEN NilFileResult
                                                  ELSE locFileResult(e))
               [] OTHER -> res)

(***************************************************************************)
(* cmd/glocc/glocc.go: gloccMain, one goroutine per command-line argument. *)
(*                                                                         *)
(* An argument is a tree on disk; the goroutine of argument k runs         *)
(* CountLoc on it and sends the DirResult on resultsChannel, which is not  *)
(* buffered.  A panic in any goroutine ends the process.                   *)
(***************************************************************************)
\* the trees the arguments name: top/{a.go}, top/{sub/{b.py}}, the regular
\* file a.go, a path that does not exist and the regular file x.o
ArgMenu ==
  { [n |-> 1, root |-> 1, parent |-> <<0>>, item |-> <<5>>],
    [n |-> 2, root |-> 1, parent |-> <<0, 1>>, item |-> <<1, 6>>],
    [n |-> 0, root |-> 4, parent |-> <<>>, item |-> <<>>],
    [n |-> 0, root |-> 9, parent |-> <<>>, item |-> <<>>],
    [n |-> 0, root |-> 5, parent |-> <<>>, item |-> <<>>] }

\* CountLoc(root) as a whole on the tree t: the DirResult returned, its
\* Subdirs and Files in the order of the listing, or the panic on a nil
\* *FileResult
CountLocOutcome(t) ==
  LET e == EntryOf(t, 0)
      b == CountLocBranch(e)
      fr == IF e.openErr THEN NilFileResult ELSE locFileResult(e)
  IN  CASE b = "dir"  -> [panic |-> FALSE, res |-> SeqDir(t, NoOv, 0)]
        [] b = "file" ->
             IF fr.nil THEN [panic |-> TRUE, res |-> NoResult]
             ELSE [panic |-> FALSE,
                   res |-> [Name    |-> fr.Name,
                            Subdirs |-> <<>>,
                            Files   |-> << [Name |-> fr.Name, Loc |-> fr.Loc] >>,
                            Summary |-> fr.Loc]]
        [] OTHER      -> [panic |-> FALSE, res |-> EmptyDirResult(RootArg(t))]

\* CountLocOutcome of every tree of ArgMenu, computed once
CountLocOutcomes == { <<t, CountLocOutcome(t)>> : t \in ArgMenu }

\* CountLoc on the tree t of ArgMenu
CountLocOf(t) == (CHOOSE p \in CountLocOutcomes : p[1] = t)[2]

\* the DirResult literal gloccMain starts from
TotalInit ==
  [Name |-> << <<"T", "O", "T", "A", "L">> >>, Subdirs |-> <<>>,
   Files |-> <<>>, Summary |-> EmptyMap]

\* gloccMain up to the end of its loop over args: one go statement per
\* argument
MainSpawn ==
  /\ mpc = "start"
  /\ task' = [k \in 1..Len(args) |-> "CountLoc"]
  /\ mpc' = "range"
  /\ UNCHANGED <<args, sent, totalResults, resultsCount>>
  /\ UNCHANGED countVars
  /\ UNCHANGED walkVars

\* the goroutine of argument k runs glocc.CountLoc(path)
TaskCountLoc(k) ==
  /\ mpc = "range"
  /\ task[k] = "CountLoc"
  /\ LET o == CountLocOf(args[k])
     IN  IF o.panic
           THEN /\ mpc' = "panic"
                /\ task' = [task EXCEPT ![k] = "panic"]
                /\ UNCHANGED sent
           ELSE /\ task' = [task EXCEPT ![k] = "send"]
                /\ sent' = [sent EXCEPT ![k] = o.res]
                /\ UNCHANGED mpc
  /\ UNCHANGED <<args, totalResults, resultsCount>>
  /\ UNCHANGED countVars
  /\ UNCHANGED walkVars

\* one iteration of the loop over resultsChannel: the send of the goroutine
\* of argument k is received, appended and merged; the loop is left, and
\* gloccMain returns, when resultsCount reaches len(args)
MainReceive(k) ==
  /\ mpc = "range"
  /\ task[k] = "send"
  /\ task' = [task EXCEPT ![k] = "done"]
  /\ resultsCount' = resultsCount + 1
  /\ totalResults' = ReceiveDir(totalResults, sent[k])
  /\ mpc' = IF resultsCount + 1 = Len(args) THEN "returned" ELSE "range"
  /\ UNCHANGED <<args, sent>>
  /\ UNCHANGED countVars
  /\ UNCHANGED walkVars

MainNext ==
  \/ MainSpawn
  \/ \E k \in 1..Len(args) : TaskCountLoc(k)
  \/ \E k \in 1..Len(args) : MainReceive(k)

\* gloccMain(args) is called
MainInit ==
  /\ args \in SeqsUpTo(ArgMenu, MaxArgs)
  /\ task = [k \in 1..Len(args) |-> "idle"]
  /\ sent = [k \in 1..Len(args) |-> NoResult]
  /\ mpc = "start"
  /\ totalResults = TotalInit
  /\ resultsCount = 0
  /\ lc = NoLocCounter
  /\ lcpc = "off"
  /\ raw = <<>>
  /\ ref = RefInit
  /\ cret = NoCount
  /\ input = NoInput
  /\ fs = NoTree
  /\ pc = <<>>
  /\ result = <<>>
  /\ fileResult = <<>>
  /\ count = <<>>
  /\ todo = <<>>
  /\ handles = {}
  /\ closed = {}
  /\ out = NoResult

MainSpec == MainInit /\ [][MainNext]_vars

\* goroutines that can run do run
FairMainSpec == MainSpec /\ WF_vars(MainNext)

(***************************************************************************)
(* The claims.                                                             *)
(***************************************************************************)
\* C1 (additivity): in every DirResult that locDir or CountLoc has returned,
\* at the root and at every node nested under Subdirs, Summary[L] is the sum
\* of Loc[L] over Files plus the sum of Summary[L] over Subdirs, for every
\* language L, whatever the tree and the order the results arrived in.
C1_Additivity ==
  /\ \A i \in Entries : Returned(i) => Additive(result[i])
  /\ pc[0] = "done" => Additive(out)

\* C1 happens: CountLoc returned a root whose count of some language is made
\* of its own files and of a subdirectory's summary
C1_Witness ==
  /\ pc[0] = "done"
  /\ \E l \in LanguageNames :
       /\ SumLoc(out.Files, l) > 0
       /\ SumSummary(out.Subdirs, l) > 0

\* C2 (schedule independence): the DirResult every locDir returns is, up to
\* the order of its Subdirs and Files, the one that a walk receiving the
\* results in the order of the listing returns: the same Summary at every
\* node and the same Loc for every file under every interleaving.
C2_ScheduleIndependence ==
  /\ \A i \in Entries :
       Returned(i) => Unordered(result[i]) = Unordered(SeqDir(fs, NoOv, i))
  /\ (pc[0] = "done" /\ EntryOf(fs, 0).kind = "dir")
       => Unordered(out) = Unordered(SeqDir(fs, NoOv, 0))

\* C2 happens: the results arrived in another order than the listing's, and
\* the Files or Subdirs are ordered otherwise
C2_Witness ==
  /\ pc[0] = "done"
  /\ EntryOf(fs, 0).kind = "dir"
  /\ out # SeqDir(fs, NoOv, 0)
  /\ \E l \in LanguageNames : Get(out.Summary, l) > 2

IsSlashStar(lang) ==
  /\ lang.inlineCommentTokens = << <<"/", "/">> >>
  /\ lang.multiLineCommentStartingTokens = << <<"/", "*">> >>
  /\ lang.multiLineCommentEndingTokens = << <<"*", "/">> >>

\* C4 (line verdict against a reference): for the descriptor with //, /* and
\* */, after every physical line the count of LocCounter.Count is the number
\* of lines read so far that hold a character other than a space or a tab
\* outside every comment, its state is the block-comment state exactly when
\* a block comment is open at the end of the line, and the count Count
\* returns is that number.
C4_LineVerdict ==
  (lcpc \in {"scan", "returned"} /\ IsSlashStar(lc.language)) =>
    /\ lc.loc = ref.count
    /\ (lc.state = "stateMultiLineComment") <=> ref.inBlock
    /\ lcpc = "returned" => cret.loc = ref.count

\* C4 happens: Count returned 1 for three lines, the last of which left a
\* block comment open
C4_Witness ==
  /\ lcpc = "returned"
  /\ IsSlashStar(lc.language)
  /\ lc.fileLinesCnt = 3
  /\ cret.loc = 1
  /\ lc.state = "stateMultiLineComment"

\* the name of the directory locDir skips
GitName == <<".", "g", "i", "t">>

\* entry c lies in the directory i
ChildOf(c, i) == c # 0 /\ fs.parent[c] = i

\* entry d lies below the directory a, at any depth
RECURSIVE Below(_, _)
Below(d, a) == d # 0 /\ (fs.parent[d] = a \/ Below(fs.parent[d], a))

\* a regular file whose extension or name is not in the registry
Unsupported(e) == e.kind = "file" /\ locFileExt(e.name) \notin AllExtensions

\* the tree without the entry c
Without(c) == [x \in {c} |-> [EntryOf(fs, c) EXCEPT !.kind = "gone"]]

\* C5 (unsupported extension inside a directory): a regular file whose
\* extension is not in the registry yields a nil result, is not in the Files
\* of its directory, and the DirResult of its directory (Files, Subdirs and
\* Summary with its keys) is the one of the tree without that file.
C5_UnsupportedFile ==
  \A i \in Entries : \A c \in Entries :
    (Returned(i) /\ ChildOf(c, i) /\ Unsupported(EntryOf(fs, c))) =>
      /\ Unordered(result[i]) = Unordered(SeqDir(fs, Without(c), i))
      /\ \A k \in 1..Len(result[i].Files) :
           result[i].Files[k].Name # << EntryOf(fs, c).name >>
      /\ pc[c] \in {"send", "done"} => fileResult[c].nil

\* C5 happens: CountLoc returned a root that holds an unsupported file next to
\* counted files
C5_Witness ==
  /\ pc[0] = "done"
  /\ \E c \in Entries :
       ChildOf(c, 0) /\ Unsupported(EntryOf(fs, c)) /\ pc[c] = "done"
  /\ \E l \in LanguageNames : SumLoc(out.Files, l) > 2

\* every directory above entry i is listed: none is named .git, none fails
RECURSIVE Listed(_)
Listed(i) ==
  i = 0 \/ LET p == EntryOf(fs, fs.parent[i])
           IN  /\ p.name # GitName /\ ~p.openErr /\ ~p.readdirErr
               /\ Listed(fs.parent[i])

\* the lines of language l in the files 1..i that the walk reaches
RECURSIVE CountedUpTo(_, _)
CountedUpTo(i, l) ==
  IF i = 0 THEN 0
  ELSE CountedUpTo(i - 1, l) +
       (IF EntryOf(fs, i).kind = "file" /\ ~EntryOf(fs, i).openErr /\ Listed(i)
          THEN Get(locFileOf(EntryOf(fs, i)).Loc, l)
          ELSE 0)

\* C6 (.git is excluded): locDir on a directory named .git, at any depth or
\* as the root, opens nothing, lists nothing and spawns nothing, and returns
\* an empty DirResult; no entry below it is ever run or opened; and the
\* Summary CountLoc returns counts the files outside .git directories only.
C6_GitExcluded ==
  /\ \A i \in Entries :
       (EntryOf(fs, i).kind = "dir" /\ EntryOf(fs, i).name = GitName) =>
         /\ pc[i] \notin {"spawn", "gather"}
         /\ i \notin handles
         /\ count[i] = 0 /\ todo[i] = <<>>
         /\ Returned(i) => result[i] = EmptyDirResult(PathOf(fs, i))
         /\ \A d \in Entries : Below(d, i) => (pc[d] = "idle" /\ d \notin handles)
  /\ (pc[0] = "done" /\ EntryOf(fs, 0).kind = "dir") =>
       \A l \in LanguageNames \cup DOMAIN out.Summary :
         Get(out.Summary, l) = CountedUpTo(fs.n, l)

\* C6 happens: CountLoc returned for a tree with a Go file in a .git directory
\* and another one next to it
C6_Witness ==
  /\ pc[0] = "done"
  /\ \E i \in Entries : \E d \in Entries : \E c \in Entries :
       /\ ChildOf(i, 0) /\ EntryOf(fs, i).name = GitName /\ pc[i] = "done"
       /\ ChildOf(d, i) /\ EntryOf(fs, d).name = <<"a", ".", "g", "o">>
       /\ ChildOf(c, 0) /\ EntryOf(fs, c).name = <<"a", ".", "g", "o">>

\* no element of Subdirs is named .git, here and below
RECURSIVE NoGitIn(_)
NoGitIn(dr) ==
  \A k \in 1..Len(dr.Subdirs) :
    Base(dr.Subdirs[k].Name) # GitName /\ NoGitIn(dr.Subdirs[k])

RECURSIVE GitIsEmptyIn(_)
GitIsEmptyIn(dr) ==
  \A k \in 1..Len(dr.Subdirs) :
    /\ Base(dr.Subdirs[k].Name) = GitName =>
         /\ dr.Subdirs[k].Files = <<>>
         /\ dr.Subdirs[k].Subdirs = <<>>
         /\ dr.Subdirs[k].Summary = EmptyMap
    /\ GitIsEmptyIn(dr.Subdirs[k])

C8_RootFileReturns ==
  EntryOf(fs, 0).kind = "file" =>
    /\ pc[0] # "panic"
    /\ pc[0] = "done" =>
         /\ out.Subdirs = <<>>
         /\ IF Unsupported(EntryOf(fs, 0)) \/ EntryOf(fs, 0).openErr
              THEN \A l \in DOMAIN out.Summary : out.Summary[l] = 0
              ELSE /\ Len(out.Files) = 1
                   /\ out.Files[1].Name = << EntryOf(fs, 0).name >>
                   /\ out.Summary = out.Files[1].Loc

\* C9 (root that cannot be statted): CountLoc neither calls locDir or locFile
\* nor opens anything nor crashes, and returns a DirResult with no Files, no
\* Subdirs and an empty Summary.
C9_AbsentRoot ==
  EntryOf(fs, 0).kind = "absent" =>
    /\ pc[0] \in {"CountLoc", "done"}
    /\ \A i \in Entries : i # 0 => pc[i] = "idle"
    /\ handles = {}
    /\ pc[0] = "done" => out = EmptyDirResult(RootArg(fs))

\* C9 happens: CountLoc returned for a root that does not exist
C9_Witness == EntryOf(fs, 0).kind = "absent" /\ pc[0] = "done"

\* a supported file that opens and whose reading fails after some lines
ReadFails(e) ==
  e.kind = "file" /\ ~e.openErr /\ e.readErr # -1 /\ ~Unsupported(e)

\* the file e ending after the lines read before the failure
Truncated(e) == [e EXCEPT !.body = Take(e.body, e.readErr), !.readErr = -1]

\* C10 (a read failure keeps the partial count): when reading a supported
\* file fails after k lines, Count returns the count of those k lines with
\* the error, locFile returns a FileResult with that count, and the DirResult
\* of the directory is the one of the tree in which the file ends after its
\* first k lines.
C10_PartialCount ==
  \A i \in Entries : \A c \in Entries :
    (ChildOf(c, i) /\ ReadFails(EntryOf(fs, c))) =>
      LET e == EntryOf(fs, c)
          new == NewLocCounter(locFileExt(e.name))
          partial == CountLines(new, Take(e.body, e.readErr)).loc
      IN  /\ Count(new, e.body, e.readErr) = [loc |-> partial, err |-> TRUE]
          /\ pc[c] \in {"send", "done"} =>
               /\ ~fileResult[c].nil
               /\ fileResult[c].Loc = [l \in {new.language.name} |-> partial]
          /\ Returned(i) =>
               Unordered(result[i]) =
                 Unordered(SeqDir(fs, [x \in {c} |-> Truncated(e)], i))

\* C10 happens: the root returned holds the FileResult of a file whose
\* reading failed after two lines, one of them counted, next to another file
C10_Witness ==
  /\ pc[0] = "done"
  /\ \E c \in Entries : \E k \in 1..Len(out.Files) :
       /\ ChildOf(c, 0) /\ ReadFails(EntryOf(fs, c))
       /\ out.Files[k].Name = << EntryOf(fs, c).name >>
       /\ out.Files[k].Loc["Go"] = 1
  /\ out.Summary["Go"] = 3

\* a directory that os.Open or dir.Readdir fails on
DirFails(e) == e.kind = "dir" /\ (e.openErr \/ e.readdirErr)

\* the tree in which the directory c can be opened and listed and holds
\* nothing
Emptied(c) ==
  [x \in {c} \cup { d \in Entries : ChildOf(d, c) } |->
     IF x = c THEN [EntryOf(fs, c) EXCEPT !.openErr = FALSE, !.readdirErr = FALSE]
     ELSE [EntryOf(fs, x) EXCEPT !.kind = "gone"]]

\* C11 (failure isolation between siblings): a directory that cannot be
\* opened or listed returns an empty DirResult, nothing below it is run, and
\* the DirResult of its parent and of every directory above (Files, Subdirs
\* and Summary, so also what every sibling contributed) is the one of the
\* tree in which that directory is empty; the siblings run to their end.
C11_FailureIsolation ==
  \A c \in Entries :
    DirFails(EntryOf(fs, c)) =>
      /\ Returned(c) => result[c] = EmptyDirResult(PathOf(fs, c))
      /\ \A d \in Entries : Below(d, c) => pc[d] = "idle"
      /\ \A i \in Entries :
           (Returned(i) /\ Below(c, i)) =>
             Unordered(result[i]) = Unordered(SeqDir(fs, Emptied(c), i))
      /\ (pc[0] = "done" /\ c # 0) =>
           /\ Unordered(out) = Unordered(SeqDir(fs, Emptied(c), 0))
           /\ \A s \in Entries :
                (ChildOf(s, fs.parent[c]) /\ Listed(s)
                   /\ EntryOf(fs, s).kind \in {"dir", "file"}) => pc[s] = "done"

\* C11 happens: CountLoc returned a root that holds a counted file next to a
\* directory that could not be listed and has a file in it
C11_Witness ==
  /\ pc[0] = "done"
  /\ \E c \in Entries : \E d \in Entries :
       /\ ChildOf(c, 0) /\ EntryOf(fs, c).readdirErr
       /\ ChildOf(d, c) /\ EntryOf(fs, d).kind = "file"
       /\ \E k \in 1..Len(out.Subdirs) :
            out.Subdirs[k] = EmptyDirResult(PathOf(fs, c))
  /\ out.Files # <<>>
  /\ \E l \in LanguageNames : Get(out.Summary, l) > 0

\* every line is empty or made of spaces and tabs
IsBlankFile(lines) ==
  \A k \in 1..Len(lines) : \A j \in 1..Len(lines[k]) : lines[k][j] \in {" ", "\t"}

\* C12 (blank-only file): for every registered extension, while Count reads
\* a file every line of which is empty or made of spaces and tabs only, its
\* count stays 0, and Count returns 0.
C12_BlankOnlyFile ==
  (lcpc \in {"loop", "done"} /\ IsBlankFile(input.lines)) =>
    /\ lc.loc = 0
    /\ lcpc = "done" => cret = [loc |-> 0, err |-> FALSE]

\* C12 happens: Count returned for a Matlab file of three lines, one of them
\* a space and a tab
C12_Witness ==
  /\ lcpc = "done"
  /\ IsBlankFile(input.lines)
  /\ Len(input.lines) = 3
  /\ \E k \in 1..3 : input.lines[k] = <<" ", "\t">>
  /\ lc.language.name = "Matlab"

\* strings.HasSuffix(s, p)
HasSuffix(s, p) == Len(s) >= Len(p) /\ Drop(s, Len(s) - Len(p)) = p

\* the end token e is the one declared for the start token s: the one at the
\* same place of the language's list, or the last one the language declares
Matches(lang, s, e) ==
  LET starts == lang.multiLineCommentStartingTokens
      ends == lang.multiLineCommentEndingTokens
  IN  \E k \in 1..Len(starts) :
        /\ starts[k] = s
        /\ ends # <<>>
        /\ e = ends[IF k <= Len(ends) THEN k ELSE Len(ends)]

\* line k of a file that the start token s opens and the end token e closes,
\* without those two tokens
CommentText(lines, s, e, k) ==
  LET n == Len(lines)
      tail == IF k = 1 THEN Drop(lines[k], Len(s)) ELSE lines[k]
  IN  IF k = n THEN Take(tail, Len(tail) - Len(e)) ELSE tail

\* the file is one block comment: a start token at the beginning of the
\* first line, its end token at the end of the last line, no end token in
\* the text in between
WholeBlockComment(lang, lines) ==
  /\ lines # <<>>
  /\ \E s \in Range(lang.multiLineCommentStartingTokens) :
     \E e \in Range(lang.multiLineCommentEndingTokens) :
       /\ Matches(lang, s, e)
       /\ HasPrefix(lines[1], s)
       /\ HasSuffix(lines[Len(lines)], e)
       /\ Len(lines) = 1 => Len(lines[1]) >= Len(s) + Len(e)
       /\ \A k \in 1..Len(lines) :
          \A t \in Range(lang.multiLineCommentEndingTokens) :
            Index(CommentText(lines, s, e, k), t) = -1

\* C13 as claimed: for every registered language that declares block-comment
\* tokens, Count returns 0 for a file that is one block comment, from a
\* declared start token at the beginning of its first line to the matching
\* end token at the end of its last line.
C13_WholeFileBlockComment ==
  (lcpc = "done" /\ WholeBlockComment(lc.language, input.lines)) => cret.loc = 0

\* a language with the block start /* and the block end */
HasSlashStar(lang) ==
  /\ <<"/", "*">> \in Range(lang.multiLineCommentStartingTokens)
  /\ <<"*", "/">> \in Range(lang.multiLineCommentEndingTokens)

\* code: a character other than a space or a tab, and no comment token
IsCode(lang, s) ==
  /\ \E j \in 1..Len(s) : s[j] \notin {" ", "\t"}
  /\ \A t \in Range(lang.inlineCommentTokens)
            \cup Range(lang.multiLineCommentStartingTokens)
            \cup Range(lang.multiLineCommentEndingTokens) : Index(s, t) = -1

\* a line of the form code, /* ... */, code
IsCodeCommentCode(lang, line) ==
  LET a == Index(line, <<"/", "*">>)
      rest == Drop(line, a + 2)
      b == Index(rest, <<"*", "/">>)
  IN  /\ a > 0 /\ b # -1
      /\ IsCode(lang, Take(line, a))
      /\ IsCode(lang, Drop(rest, b + 2))

\* the line the next iteration of Count's loop reads
NextLine == input.lines[lc.fileLinesCnt + 1]

\* C14 (same-line open and close with trailing code): for a language with
\* the block start /* and the block end */, an iteration of Count's loop
\* that begins outside a block comment and reads a line of the form code,
\* /* ... */, code adds exactly 1 to the count and leaves the classifier in
\* the Code state.
C14_SameLineOpenClose ==
  [][ ( /\ lcpc = "loop"
        /\ lc.fileLinesCnt < Len(input.lines)
        /\ HasSlashStar(lc.language)
        /\ lc.state # "stateMultiLineComment"
        /\ IsCodeCommentCode(lc.language, NextLine) )
      => (lc'.loc = lc.loc + 1 /\ lc'.state = "stateCode") ]_vars

\* C14 happens: Count returned 2 for a Java file whose first line is code
\* and whose second line is code, /* ... */, code
C14_Witness ==
  /\ lcpc = "done"
  /\ lc.language.name = "Java"
  /\ Len(input.lines) = 2
  /\ input.lines[1] = <<"x">>
  /\ IsCodeCommentCode(lc.language, input.lines[2])
  /\ cret.loc = 2
  /\ lc.state = "stateCode"

\* the tree root/{a.go, sub/{b.py}}: entry a is a.go and entry b is b.py in
\* the directory s
IsExampleTree(s, a, b) ==
  /\ fs.n = 3
  /\ EntryOf(fs, 0) = Dir(<<"t", "o", "p">>, FALSE, FALSE)
  /\ ChildOf(s, 0) /\ EntryOf(fs, s) = Dir(<<"s", "u", "b">>, FALSE, FALSE)
  /\ ChildOf(a, 0)
  /\ EntryOf(fs, a) = File(<<"a", ".", "g", "o">>, FALSE,
       << <<"p", "a", "c", "k", "a", "g", "e", " ", "p">>,
          <<"/", "/", " ", "c", "o", "m", "m", "e", "n", "t">>,
          <<"f", "u", "n", "c", " ", "f", "(", ")", " ", "{", "}">> >>, -1)
  /\ ChildOf(b, s)
  /\ EntryOf(fs, b) = File(<<"b", ".", "p", "y">>, FALSE,
       << <<"\"", "\"", "\"", "d", "o", "c", "\"", "\"", "\"">>,
          <<"x", " ", "=", " ", "1">> >>, -1)

\* C15 (end-to-end example): on the tree root/{a.go, sub/{b.py}} with the
\* lines of the example, under every interleaving, locFile gives a.go the
\* counts {Go: 2} and b.py the counts {Python: 1}, and CountLoc returns a
\* root whose Summary is {Go: 2, Python: 1} and whose Subdirs hold exactly
\* one entry, of Summary {Python: 1}.
C15_EndToEnd ==
  \A s \in Entries : \A a \in Entries : \A b \in Entries :
    IsExampleTree(s, a, b) =>
      /\ pc[a] \in {"send", "done"} =>
           fileResult[a].Loc = [l \in {"Go"} |-> 2]
      /\ pc[b] \in {"send", "done"} =>
           fileResult[b].Loc = [l \in {"Python"} |-> 1]
      /\ pc[0] = "done" =>
           /\ out.Files = << [Name |-> <<<<"a", ".", "g", "o">>>>,
                              Loc |-> [l \in {"Go"} |-> 2]] >>
           /\ out.Summary = [l \in {"Go", "Python"} |->
                               IF l = "Go" THEN 2 ELSE 1]
           /\ Len(out.Subdirs) = 1
           /\ out.Subdirs[1].Summary = [l \in {"Python"} |-> 1]
           /\ out.Subdirs[1].Files = << [Name |-> <<<<"b", ".", "p", "y">>>>,
                                         Loc |-> [l \in {"Python"} |-> 1]] >>
           /\ out.Subdirs[1].Subdirs = <<>>

\* C15 happens: CountLoc returned for the example tree with both counts in
\* the Summary of the root
C15_Witness ==
  /\ pc[0] = "done"
  /\ \E s \in Entries : \E a \in Entries : \E b \in Entries :
       IsExampleTree(s, a, b)
  /\ out.Summary["Go"] = 2 /\ out.Summary["Python"] = 1

\* C16 as claimed: in the result of CountLoc on the tree root/{a.go,
\* sub/{b.py}}, the Subdirs of the root hold one entry, and its Name is
\* "sub", the directory's own name.
C16_SubdirNamedSub ==
  \A s \in Entries : \A a \in Entries : \A b \in Entries :
    (IsExampleTree(s, a, b) /\ pc[0] = "done") =>
      /\ Len(out.Subdirs) = 1
      /\ out.Subdirs[1].Name = << <<"s", "u", "b">> >>

\* the names from the root given to CountLoc down to entry i
RECURSIVE NamesDownTo(_)
NamesDownTo(i) ==
  IF i = 0 THEN << EntryOf(fs, 0).name >>
  ELSE Append(NamesDownTo(fs.parent[i]), EntryOf(fs, i).name)

\* the absolute path of entry i: the working directory, then the names
FullName(i) == << <<"w">> >> \o NamesDownTo(i)

\* C16 as amended: the Name of the DirResult of a directory is its full
\* path, the absolute path of the root joined with the names down to the
\* directory, whose last element is the directory's own name; the Subdirs
\* of a directory that was listed hold exactly one entry of that Name for
\* every subdirectory; on the example tree the one entry of the root's
\* Subdirs is named <working directory>/root/sub.
C16_SubdirFullName ==
  /\ \A i \in Entries :
       Returned(i) =>
         /\ result[i].Name = FullName(i)
         /\ Base(result[i].Name) = EntryOf(fs, i).name
         /\ \A k \in 1..Len(result[i].Subdirs) :
              \E c \in Entries :
                /\ ChildOf(c, i) /\ EntryOf(fs, c).kind = "dir"
                /\ result[i].Subdirs[k].Name = FullName(c)
         /\ \A c \in Entries :
              (ChildOf(c, i) /\ EntryOf(fs, c).kind = "dir" /\ pc[c] = "done") =>
                Cardinality({ k \in 1..Len(result[i].Subdirs) :
                                result[i].Subdirs[k].Name = FullName(c) }) = 1
  /\ \A s \in Entries : \A a \in Entries : \A b \in Entries :
       (IsExampleTree(s, a, b) /\ pc[0] = "done") =>
         /\ Len(out.Subdirs) = 1
         /\ out.Subdirs[1].Name =
              << <<"w">>, <<"t", "o", "p">>, <<"s", "u", "b">> >>

\* C16 happens: CountLoc returned for the example tree, with the entry of
\* sub under its full path
C16_Witness ==
  /\ pc[0] = "done"
  /\ \E s \in Entries : \E a \in Entries : \E b \in Entries :
       IsExampleTree(s, a, b)
  /\ Len(out.Subdirs) = 1
  /\ Len(out.Subdirs[1].Name) = 3
  /\ Base(out.Subdirs[1].Name) = <<"s", "u", "b">>

\* the characters of s after its final dot (s holds a dot)
RECURSIVE AfterFinalDot(_)
AfterFinalDot(s) ==
  IF s[Len(s)] = "." THEN <<>>
  ELSE Append(AfterFinalDot(Take(s, Len(s) - 1)), s[Len(s)])

\* the key a base name is looked up as: none is TRUE when there is no key
LookupKey(name) ==
  IF \E j \in 1..Len(name) : name[j] = "."
    THEN [none |-> FALSE, key |-> AfterFinalDot(name)]
  ELSE IF HasPrefix(name, <<"M", "a", "k", "e", "f", "i", "l", "e">>)
    THEN [none |-> FALSE, key |-> <<"M", "a", "k", "e", "f", "i", "l", "e">>]
  ELSE IF HasPrefix(name, <<"D", "o", "c", "k", "e", "r", "f", "i", "l", "e">>)
    THEN [none |-> FALSE, key |-> <<"D", "o", "c", "k", "e", "r", "f", "i", "l", "e">>]
  ELSE [none |-> TRUE, key |-> <<>>]

\* C17 (language resolution from the file name): locFile looks the language
\* up under the characters after the final dot of the base name; a base name
\* without a dot is looked up as Makefile if it begins with "Makefile", as
\* Dockerfile if it begins with "Dockerfile", and is unsupported otherwise; a
\* base name with a dot is never looked up by its prefix (Makefile.am is
\* looked up as am, which is not registered).
C17_LanguageResolution ==
  lcpc # "new" =>
    LET k == LookupKey(input.name)
    IN  /\ IF k.none \/ k.key \notin AllExtensions
             THEN lcpc = "nil"
             ELSE lcpc \in {"loop", "done"} /\ lc.language = languages[k.key]
        /\ input.name = <<"M", "a", "k", "e", "f", "i", "l", "e", ".", "a", "m">>
             => lcpc = "nil"
        /\ input.name = <<"M", "a", "k", "e", "f", "i", "l", "e", ".", "g", "o">>
             => lc.language.name = "Go"
        /\ input.name = <<"M", "a", "k", "e", "f", "i", "l", "e", "2">>
             => lc.language.name = "Makefile"
        /\ input.name = <<"R", "E", "A", "D", "M", "E">> => lcpc = "nil"

\* C17 happens: Count returned 1 for the lines // x and x of a file named
\* Makefile.go, counted as Go
C17_Witness ==
  /\ lcpc = "done"
  /\ input.name = <<"M", "a", "k", "e", "f", "i", "l", "e", ".", "g", "o">>
  /\ input.lines = << <<"/", "/", "x">>, <<"x">> >>
  /\ lc.language.name = "Go"
  /\ cret.loc = 1

\* the sum of Summary[l] over the DirResults CountLoc returned for the
\* arguments 1..k
RECURSIVE SumSent(_, _)
SumSent(k, l) ==
  IF k = 0 THEN 0 ELSE Get(sent[k].Summary, l) + SumSent(k - 1, l)

\* gloccMain returned a TOTAL with one element of Subdirs per argument, the
\* DirResult CountLoc returned for it, and the sums of the arguments'
\* top-level counts
ReturnedTotal ==
  /\ mpc = "returned"
  /\ \A k \in 1..Len(args) : task[k] = "done"
  /\ Len(totalResults.Subdirs) = Len(args)
  /\ \A k \in 1..Len(args) :
       Cardinality({ j \in 1..Len(totalResults.Subdirs) :
                       totalResults.Subdirs[j] = sent[k] })
         = Cardinality({ j \in 1..Len(args) : sent[j] = sent[k] })
  /\ \A l \in LanguageNames \cup DOMAIN totalResults.Summary :
       Get(totalResults.Summary, l) = SumSent(Len(args), l)

\* C18 as claimed: gloccMain, called with any number of arguments, zero
\* included, eventually returns a TOTAL whose Subdirs hold exactly one
\* DirResult per argument and whose Summary[L] is the sum over the arguments
\* of their top-level Summary[L], in whatever order the CountLoc tasks
\* finish.
C18_MainReturnsTotal == (mpc = "start") ~> ReturnedTotal

IsListed(i) ==
  LET e == EntryOf(fs, i)
  IN  e.kind = "dir" /\ e.name # GitName /\ ~e.openErr /\ ~e.readdirErr

\* the entries of the directory i that are directories
ChildDirs(i) == { c \in Entries : ChildOf(c, i) /\ EntryOf(fs, c).kind = "dir" }

\* the entries of the directory i that are regular files
ChildFiles(i) == { c \in Entries : ChildOf(c, i) /\ EntryOf(fs, c).kind = "file" }

\* the regular files of the directory i whose language is supported and
\* that can be opened
CountableFiles(i) ==
  { c \in ChildFiles(i) :
      ~Unsupported(EntryOf(fs, c)) /\ ~EntryOf(fs, c).openErr }

\* the tasks locDir(i) has spawned so far
Spawned(i) == { c \in ChildDirs(i) \cup ChildFiles(i) : pc[c] # "idle" }

\* C20 (join discipline): locDir on a directory it lists receives exactly
\* one result per task it spawned, each once: while it gathers, its count is
\* the number of spawned tasks whose result it has not received, its Subdirs
\* hold one element for every subdirectory received and its Files one for
\* every non-nil file result received; it returns only after every task it
\* spawned has been received; so the DirResult it returns has as many
\* Subdirs as the directory has immediate subdirectories and as many Files
\* as it has immediate regular files of a supported language that open.
C20_JoinDiscipline ==
  \A i \in Entries :
    (IsListed(i) /\ pc[i] \notin {"idle", "locDir"}) =>
      /\ pc[i] = "gather" =>
           /\ Spawned(i) = ChildDirs(i) \cup ChildFiles(i)
           /\ count[i] = Cardinality({ c \in Spawned(i) : pc[c] # "done" })
      /\ Len(result[i].Subdirs) =
           Cardinality({ c \in ChildDirs(i) : pc[c] = "done" })
      /\ \A c \in ChildDirs(i) :
           Cardinality({ k \in 1..Len(result[i].Subdirs) :
                           result[i].Subdirs[k].Name = PathOf(fs, c) })
             = IF pc[c] = "done" THEN 1 ELSE 0
      /\ Len(result[i].Files) =
           Cardinality({ c \in CountableFiles(i) : pc[c] = "done" })
      /\ \A c \in ChildFiles(i) :
           Cardinality({ k \in 1..Len(result[i].Files) :
                           result[i].Files[k].Name = << EntryOf(fs, c).name >> })
             = IF pc[c] = "done" /\ c \in CountableFiles(i) THEN 1 ELSE 0
      /\ Returned(i) =>
           /\ \A c \in ChildDirs(i) \cup ChildFiles(i) : pc[c] = "done"
           /\ Len(result[i].Subdirs) = Cardinality(ChildDirs(i))
           /\ Len(result[i].Files) = Cardinality(CountableFiles(i))

\* C20 happens: locDir returned for a root with a subdirectory, a counted
\* file and a file of an unsupported language
C20_Witness ==
  /\ IsListed(0)
  /\ Returned(0)
  /\ Cardinality(ChildDirs(0)) = 1
  /\ Cardinality(ChildFiles(0)) = 2
  /\ Cardinality(CountableFiles(0)) = 1
  /\ Len(result[0].Subdirs) = 1
  /\ Len(result[0].Files) = 1

\* the entries of the directory i that are neither directories nor regular
\* files
ChildOthers(i) ==
  { c \in Entries : ChildOf(c, i) /\ EntryOf(fs, c).kind \notin {"dir", "file"} }

\* C21 (fan-out per entry): an iteration of locDir's loop over fileinfoz
\* takes the next child, which has no task yet, and starts locDir for a
\* directory and locFile for a regular file, adding one to count, while for
\* a child of any other kind it starts nothing and leaves count alone; the
\* iteration receives nothing and leaves every other task where it is.  A
\* task is started by such an iteration of its parent only and never starts
\* again, and a child of another kind never has one.
C21_FanOut ==
  [][ /\ \A i \in Entries :
           (pc[i] = "spawn" /\ todo'[i] # todo[i]) =>
             LET c == Head(todo[i])
                 kind == EntryOf(fs, c).kind
             IN  /\ ChildOf(c, i)
                 /\ pc[c] = "idle"
                 /\ pc'[c] = (CASE kind = "dir"  -> "locDir"
                                [] kind = "file" -> "locFile"
                                [] OTHER         -> "idle")
                 /\ count'[i] = count[i] + (IF kind \in {"dir", "file"} THEN 1 ELSE 0)
                 /\ result'[i] = result[i]
                 /\ \A d \in Entries \ {c, i} : pc'[d] = pc[d]
      /\ \A c \in Entries :
           /\ (pc[c] = "idle" /\ pc'[c] # "idle") =>
                /\ c # 0
                /\ pc[fs.parent[c]] = "spawn"
                /\ Head(todo[fs.parent[c]]) = c
           /\ (pc[c] # "idle") => pc'[c] # "idle"
      /\ \A i \in Entries : \A c \in ChildOthers(i) : pc'[c] = "idle"
    ]_vars

\* C21 happens: locDir on a root with a subdirectory, a regular file and a
\* symlink has ended its loop over fileinfoz with a count of two, while
\* neither of the two tasks it started has taken a step and the symlink has
\* none
C21_Witness ==
  /\ pc[0] = "gather"
  /\ count[0] = 2
  /\ \E d \in ChildDirs(0) : pc[d] = "locDir"
  /\ \E f \in ChildFiles(0) : pc[f] = "locFile"
  /\ \E o \in ChildOthers(0) : pc[o] = "idle"

\* the locDir invocation of entry i has returned its DirResult
HasReturned(i) == pc[i] \in {"send", "CountLocRet", "done"}

\* the locFile invocation of entry i has returned its *FileResult
HasReturnedFile(i) == pc[i] \in {"send", "wrap", "done", "panic"}

\* C22 (exclusive ownership of results): the DirResult of locDir(i) changes
\* only in a step of locDir(i) itself, where it is created or where one
\* iteration of its own loop that gathers merges the result a child has
\* sent, and never once locDir(i) has returned; a step in which the task of
\* an entry moves on changes no DirResult of another invocation, but for the
\* handing over of its own sent result to its parent; a *FileResult is
\* written by its own locFile invocation only and never after it returned.
C22_ExclusiveOwnership ==
  [][ /\ \A i \in Entries :
           result'[i] # result[i] =>
             /\ ~HasReturned(i)
             /\ \/ pc[i] = "locDir" /\ pc'[i] # "locDir"
                \/ /\ pc[i] = "gather" /\ count'[i] = count[i] - 1
                   /\ \E c \in Entries :
                        /\ ChildOf(c, i) /\ pc[c] = "send" /\ pc'[c] = "done"
                        /\ result'[i] \in { ReceiveDir(result[i], result[c]),
                                            ReceiveFile(result[i], fileResult[c]) }
             /\ \A d \in Entries \ {i} : result'[d] = result[d]
      /\ \A i \in Entries :
           fileResult'[i] # fileResult[i] =>
             /\ ~HasReturnedFile(i)
             /\ pc[i] \in {"locFile", "count"} /\ pc'[i] # pc[i]
             /\ \A d \in Entries \ {i} : fileResult'[d] = fileResult[d]
             /\ result' = result
    ]_vars

\* C22 happens: locDir on the root has returned after it received the result
\* of a subdirectory that holds a counted file and, besides, a counted file
\* of its own, so that it wrote its Summary after the subdirectory's result
\* was sent, and the subdirectory's own DirResult is what the root received
C22_Witness ==
  /\ pc[0] = "done"
  /\ \E c \in ChildDirs(0) :
       /\ pc[c] = "done"
       /\ result[c].Files # <<>>
       /\ result[0].Files # <<>>
       /\ result[0].Subdirs = << result[c] >>
       /\ result[0].Summary # result[c].Summary

\* the classifier is about to call process in the block-comment state
InBlockComment == lcpc = "process" /\ lc.state = "stateMultiLineComment"

\* the open token stored, reversed character by character
Reversed(token) == [k \in 1..Len(token) |-> token[Len(token) - k + 1]]

\* the reverse of the open token stored is a declared block-end token
ReverseIsDeclared ==
  Reversed(lc.token) \in Range(lc.language.multiLineCommentEndingTokens)

\* C23 (asymmetric delimiter restriction): a call of process in the
\* block-comment state, when the reverse of the stored open token is a
\* declared block-end token, leaves the state and the stored token as they
\* are and ends the line if the reversed token does not occur in the rest of
\* the line, whatever other declared end token occurs there; it closes the
\* comment only at the first occurrence of the reversed token.
C23_AsymmetricDelimiter ==
  [][ (InBlockComment /\ ReverseIsDeclared) =>
        LET closer == Reversed(lc.token)
            idx == Index(lc.currLine, closer)
        IN  IF idx = -1
              THEN /\ lc'.state = "stateMultiLineComment"
                   /\ lc'.token = lc.token
                   /\ lc'.currLine = lc.currLine
                   /\ lcpc' = "scan"
              ELSE /\ lc'.state = "stateCode"
                   /\ lc'.currLine = TrimLeft(Drop(lc.currLine, idx + Len(closer)))
                   /\ lcpc' = "process"
    ]_vars

\* C23 happens: a line of a Python file holding ''' has been processed
\* within a comment opened by """ and the comment is still open
C23_Witness ==
  /\ lcpc = "scan"
  /\ lc.language.name = "Python"
  /\ lc.state = "stateMultiLineComment"
  /\ lc.token = <<"\"", "\"", "\"">>
  /\ Index(raw, <<"'", "'", "'">>) # -1
  /\ Index(raw, <<"\"", "\"", "\"">>) = -1

\* the indices at which a token of the set occurs first in the line
FirstIndices(line, tokens) == { Index(line, t) : t \in tokens } \ {-1}

\* the lowest of a non-empty set of indices
Lowest(S) == CHOOSE m \in S : \A n \in S : m <= n

\* C24 (fallback closer set): a call of process in the block-comment state,
\* when the reverse of the stored open token is not a declared block-end
\* token and some declared block-end token occurs in the rest of the line,
\* closes the comment at the lowest index at which any declared block-end
\* token occurs: the line becomes what follows the token found there, with
\* leading spaces and tabs removed, the state becomes Code and the line is
\* not done.
C24_FallbackClosers ==
  [][ (InBlockComment /\ ~ReverseIsDeclared) =>
        LET ends == Range(lc.language.multiLineCommentEndingTokens)
            found == FirstIndices(lc.currLine, ends)
        IN  found # {} =>
              /\ lc'.state = "stateCode"
              /\ \E t \in ends :
                   /\ Index(lc.currLine, t) = Lowest(found)
                   /\ lc'.currLine = TrimLeft(Drop(lc.currLine, Lowest(found) + Len(t)))
              /\ lc'.currLineCounted = lc.currLineCounted
              /\ lc'.loc = lc.loc
              /\ lcpc' = "process"
    ]_vars

\* C24 happens: on the line "*) }" of a Delphi file, read within a comment
\* opened by {, the comment has been closed at *), the first of the two end
\* tokens, and } is left to be classified in the Code state
C24_Witness ==
  /\ lcpc = "process"
  /\ lc.language.name = "Delphi"
  /\ raw = <<"*", ")", " ", "}">>
  /\ lc.state = "stateCode"
  /\ lc.currLine = <<"}">>
  /\ ~lc.currLineCounted

\* the tokens that can close the block comment that is open
Closers ==
  IF ReverseIsDeclared
    THEN { Reversed(lc.token) }
    ELSE Range(lc.language.multiLineCommentEndingTokens)

\* process is about to be called for the first time on the line delivered
AtLineStart == lcpc = "process" /\ lc.currLine = TrimLeft(raw) /\ ~lc.currLineCounted

\* C25 (state is threaded across lines): the step that delivers the next
\* line keeps the state, the stored open token and the count the last line
\* ended with, and resets the line's counted flag to false; a line
\* delivered while a block comment is open and holding none of the tokens
\* that can close it is discarded, and the comment is still open, with the
\* same token, at the end of it.
C25_StateThreaded ==
  [][ /\ (lcpc = "scan" /\ lcpc' = "process") =>
           /\ lc'.state = lc.state
           /\ lc'.token = lc.token
           /\ lc'.loc = lc.loc
           /\ lc'.language = lc.language
           /\ lc'.currLineCounted = FALSE
           /\ lc'.currLine = TrimLeft(raw')
      /\ ( /\ AtLineStart
           /\ lc.state = "stateMultiLineComment"
           /\ FirstIndices(raw, Closers) = {} ) =>
           /\ lcpc' = "scan"
           /\ lc'.loc = lc.loc
           /\ lc'.state = "stateMultiLineComment"
           /\ lc'.token = lc.token
    ]_vars

\* C25 happens: the second line of a Ruby file, the code-like line x, has
\* been discarded because the first line left a =begin comment open, which
\* is open still
C25_Witness ==
  /\ lcpc = "scan"
  /\ lc.language.name = "Ruby"
  /\ lc.fileLinesCnt = 2
  /\ raw = <<"x">>
  /\ lc.loc = 0
  /\ lc.state = "stateMultiLineComment"
  /\ lc.token = <<"=", "b", "e", "g", "i", "n">>

\* C26 as stated (the Initial state is left for good after one line): once
\* the first physical line has been processed the classifier is not in the
\* Initial state, neither at the end of that line nor at any time on a later
\* line.
C26_InitialLeftAfterOneLine ==
  \/ lc.fileLinesCnt = 0
  \/ lc.fileLinesCnt = 1 /\ lcpc = "process"
  \/ lc.state # "stateInitial"

\* the line is empty or begins with an inline-comment token
Skipped(line) ==
  \/ line = <<>>
  \/ \E t \in Range(lc.language.inlineCommentTokens) : HasPrefix(line, t)

\* C26 amended (the Initial state is left for good on the first line that is
\* neither empty nor commented out): a call of process in the Initial state
\* stays in it, and ends the line, when the left-trimmed line is empty or
\* begins with an inline-comment token, and leaves it otherwise; no step
\* enters the Initial state again, and nothing has been counted while the
\* classifier is in it.
C26_InitialLeftOnFirstCodeLine ==
  [][ /\ (lcpc = "process" /\ lc.state = "stateInitial") =>
           IF Skipped(lc.currLine)
             THEN lc'.state = "stateInitial" /\ lcpc' = "scan"
             ELSE lc'.state # "stateInitial"
      /\ lc.state # "stateInitial" => lc'.state # "stateInitial"
      /\ lc'.state = "stateInitial" => lc'.loc = 0 /\ ~lc'.currLineCounted
    ]_vars

\* C26 happens: Count on a shell script has counted its third line only, the
\* first that is neither empty nor commented out: the classifier stayed in
\* the Initial state over two lines and is in the Code state now
C26_Witness ==
  /\ lcpc = "scan"
  /\ lc.language.name = "Shell"
  /\ lc.fileLinesCnt = 3
  /\ lc.loc = 1
  /\ raw = <<"x">>
  /\ lc.state = "stateCode"

\* C27 (empty or inline-commented remainder): a call of process in the
\* Initial or the Code state on a remaining line that is empty or begins
\* with an inline-comment token ends the line and changes neither the state,
\* nor the stored open token, nor the line's counted flag: the line is
\* counted exactly when an earlier call on the same physical line marked it.
C27_EmptyOrCommentedRemainder ==
  [][ ( /\ lcpc = "process"
        /\ lc.state \in {"stateInitial", "stateCode"}
        /\ Skipped(lc.currLine) ) =>
        /\ lcpc' = "scan"
        /\ lc'.state = lc.state
        /\ lc'.token = lc.token
        /\ lc'.currLine = lc.currLine
        /\ lc'.currLineCounted = lc.currLineCounted
        /\ lc'.loc = lc.loc + (IF lc.currLineCounted THEN 1 ELSE 0)
    ]_vars

\* C27 happens: the first line of a Go file, "x /* */ //", has been counted:
\* the line was marked where the block comment opened after x, and the call
\* in the Code state on what is left after the comment, the inline comment,
\* kept the mark
C27_Witness ==
  /\ lcpc = "scan"
  /\ lc.language.name = "Go"
  /\ lc.fileLinesCnt = 1
  /\ raw = <<"x", " ", "/", "*", " ", "*", "/", " ", "/", "/">>
  /\ lc.state = "stateCode"
  /\ lc.loc = 1

\* the lowest index at which a token of the set occurs in the line, or the
\* length of the line when none occurs
LowestIndex(line, tokens) ==
  IF FirstIndices(line, tokens) = {} THEN Len(line)
  ELSE Lowest(FirstIndices(line, tokens))

\* the lowest index of any block-start token in the line
BlockIdx(line) ==
  LowestIndex(line, Range(lc.language.multiLineCommentStartingTokens))

\* the lowest index of any inline-comment token in the line
InlineIdx(line) == LowestIndex(line, Range(lc.language.inlineCommentTokens))

\* C28 (a block-start token behind an inline comment is inert): on a
\* remaining line that is not empty and whose lowest block-start index is
\* not smaller than its lowest inline-comment index, itself greater than 0,
\* a call of process in the Initial state only moves to the Code state, and
\* a call in the Code state marks the line counted, ends it and stays in the
\* Code state, so that the line is counted and the next line starts in the
\* Code state.
C28_BlockStartBehindInline ==
  [][ ( /\ lcpc = "process"
        /\ lc.state \in {"stateInitial", "stateCode"}
        /\ lc.currLine # <<>>
        /\ InlineIdx(lc.currLine) > 0
        /\ BlockIdx(lc.currLine) >= InlineIdx(lc.currLine) ) =>
        IF lc.state = "stateInitial"
          THEN /\ lcpc' = "process"
               /\ lc' = [lc EXCEPT !.state = "stateCode"]
          ELSE /\ lcpc' = "scan"
               /\ lc'.state = "stateCode"
               /\ lc'.currLineCounted
               /\ lc'.loc = lc.loc + 1
    ]_vars

\* C28 happens: the first line of a Go file, "x // /*", has been counted and
\* the classifier is in the Code state, not in a block comment
C28_Witness ==
  /\ lcpc = "scan"
  /\ lc.language.name = "Go"
  /\ lc.fileLinesCnt = 1
  /\ raw = <<"x", " ", "/", "/", " ", "/", "*">>
  /\ lc.state = "stateCode"
  /\ lc.loc = 1

\* C29 (code before a block opener counts the line): on a remaining line in
\* which a block-start token occurs before any inline-comment token, a call
\* of process in the Initial or the Code state moves to the block-comment
\* state with the token found at the lowest index stored, and the line
\* becomes what follows that token, with leading spaces and tabs removed;
\* the line is marked counted when that index is greater than 0, and its
\* counted flag is left as it is when the index is 0; the line is not done.
C29_CodeBeforeBlockOpener ==
  [][ ( /\ lcpc = "process"
        /\ lc.state \in {"stateInitial", "stateCode"}
        /\ BlockIdx(lc.currLine) < InlineIdx(lc.currLine) ) =>
        LET idx == BlockIdx(lc.currLine)
        IN  /\ lcpc' = "process"
            /\ lc'.state = "stateMultiLineComment"
            /\ \E t \in Range(lc.language.multiLineCommentStartingTokens) :
                 /\ Index(lc.currLine, t) = idx
                 /\ lc'.token = t
                 /\ lc'.currLine = TrimLeft(Drop(lc.currLine, idx + Len(t)))
            /\ lc'.currLineCounted = (IF idx > 0 THEN TRUE ELSE lc.currLineCounted)
            /\ lc'.loc = lc.loc
    ]_vars

\* C29 happens: on the first line of a Go file, "x /* n */ x", the call in
\* the Initial state found /* behind x: the line is marked, the state is
\* the block-comment state with /* stored, and "n */ x" is left
C29_Witness ==
  /\ lcpc = "process"
  /\ lc.language.name = "Go"
  /\ lc.fileLinesCnt = 1
  /\ raw = <<"x", " ", "/", "*", " ", "n", " ", "*", "/", " ", "x">>
  /\ lc.state = "stateMultiLineComment"
  /\ lc.token = <<"/", "*">>
  /\ lc.currLine = <<"n", " ", "*", "/", " ", "x">>
  /\ lc.currLineCounted

\* C30 (inline tokens and emptiness are irrelevant inside a block comment):
\* a call of process in the block-comment state on a remaining line that is
\* empty or begins with an inline-comment token looks for the tokens that
\* can close the comment and for nothing else: when one occurs anywhere in
\* the line the comment is closed at the lowest index one occurs at, what
\* follows is left to be classified in the Code state and the line is not
\* done; when none occurs the line is done, the state and the stored open
\* token are as before, and a line delivered within the comment is not
\* counted.
C30_InBlockCommentOnlyClosers ==
  [][ (InBlockComment /\ Skipped(lc.currLine)) =>
        LET found == FirstIndices(lc.currLine, Closers)
        IN  IF found = {}
              THEN /\ lcpc' = "scan"
                   /\ lc'.state = "stateMultiLineComment"
                   /\ lc'.token = lc.token
                   /\ lc'.currLineCounted = lc.currLineCounted
                   /\ AtLineStart => lc'.loc = lc.loc
              ELSE /\ lcpc' = "process"
                   /\ lc'.state = "stateCode"
                   /\ \E t \in Closers :
                        /\ Index(lc.currLine, t) = Lowest(found)
                        /\ lc'.currLine =
                             TrimLeft(Drop(lc.currLine, Lowest(found) + Len(t)))
                   /\ lc'.currLineCounted = lc.currLineCounted
    ]_vars

\* C30 happens: on the line "// */ x" of a Go file, delivered within a block
\* comment, the comment has been closed at the */ behind the inline token,
\* and x is left to be classified in the Code state
C30_Witness ==
  /\ lcpc = "process"
  /\ lc.language.name = "Go"
  /\ raw = <<"/", "/", " ", "*", "/", " ", "x">>
  /\ lc.state = "stateCode"
  /\ lc.currLine = <<"x">>
  /\ ~lc.currLineCounted

\* the call of process about to be made executes lc.currLineCounted = true
Marks ==
  /\ lcpc = "process"
  /\ lc.state \in {"stateInitial", "stateCode"}
  /\ ~Skipped(lc.currLine)
  /\ IF BlockIdx(lc.currLine) < InlineIdx(lc.currLine)
       THEN BlockIdx(lc.currLine) > 0
       ELSE lc.state = "stateCode"

\* C31 as stated (at most one counted mark per physical line): no call of
\* process marks a line that an earlier call on the same physical line has
\* marked already.
C31_AtMostOneMark == ~(Marks /\ lc.currLineCounted)

\* C31 amended (a physical line is counted at most once): the counted flag,
\* once set by a call of process, stays set until the line is done, however
\* many calls set it; the count does not change before the line is done and
\* grows by one then, exactly when the flag is set.
C31_CountedAtMostOnce ==
  [][ lcpc = "process" =>
        /\ lc.currLineCounted => lc'.currLineCounted
        /\ Marks => lc'.currLineCounted
        /\ lcpc' = "process" => lc'.loc = lc.loc
        /\ lcpc' = "scan" =>
             lc'.loc = lc.loc + (IF lc'.currLineCounted THEN 1 ELSE 0)
        /\ lc'.loc <= lc'.fileLinesCnt
    ]_vars

\* C31 happens: the first line of a Go file, "x /* n */ x", marked where the
\* comment opens behind x and again for the x behind the comment, has added
\* one to the count
C31_Witness ==
  /\ lcpc = "scan"
  /\ lc.language.name = "Go"
  /\ lc.fileLinesCnt = 1
  /\ raw = <<"x", " ", "/", "*", " ", "n", " ", "*", "/", " ", "x">>
  /\ lc.currLineCounted
  /\ lc.loc = 1

\* s is a suffix of t
IsSuffix(s, t) == Len(s) <= Len(t) /\ Drop(t, Len(t) - Len(s)) = s

\* C32 (the per-line loop terminates): for every registered language, whose
\* tokens are all non-empty, the loop that repeats process on a line ends:
\* a call that is not done either leaves the Initial state for the Code
\* state without touching the line or leaves a strictly shorter line; what
\* is left of the line is always a suffix of the left-trimmed line
\* delivered; and the loop consumes no further physical line.
C32_LineLoopTerminates ==
  /\ [][ lcpc = "process" =>
           /\ lcpc' = "process" =>
                \/ /\ lc.state = "stateInitial"
                   /\ lc' = [lc EXCEPT !.state = "stateCode"]
                \/ Len(lc'.currLine) < Len(lc.currLine)
           /\ IsSuffix(lc.currLine, TrimLeft(raw))
           /\ IsSuffix(lc'.currLine, TrimLeft(raw'))
           /\ lcpc' \in {"process", "scan"}
           /\ lcpc' = "process" =>
                raw' = raw /\ lc'.fileLinesCnt = lc.fileLinesCnt
       ]_vars
  /\ \A lang \in Range(allLanguages) :
       \A t \in Range(lang.inlineCommentTokens)
                \cup Range(lang.multiLineCommentStartingTokens)
                \cup Range(lang.multiLineCommentEndingTokens) : t # <<>>
  /\ (lcpc = "process") ~> (lcpc = "scan")

\* C32 happens: the loop on the line "/* */ //" of a Go file has ended in
\* the Code state, with the line cut down to its inline comment and not
\* counted
C32_Witness ==
  /\ lcpc = "scan"
  /\ lc.language.name = "Go"
  /\ lc.fileLinesCnt = 1
  /\ raw = <<"/", "*", " ", "*", "/", " ", "/", "/">>
  /\ lc.currLine = <<"/", "/">>
  /\ lc.state = "stateCode"
  /\ lc.loc = 0

\* the entries of allLanguages that declare the extension
Declaring(ext) ==
  { i \in 1..Len(allLanguages) : ext \in Range(allLanguages[i].extensions) }

\* the registry built from allLanguages taken in the opposite order: the
\* entry declared first wins
languagesReversed ==
  [ext \in AllExtensions |->
     allLanguages[CHOOSE i \in Declaring(ext) : \A k \in Declaring(ext) : i <= k]]

\* every extension is declared by exactly one entry of allLanguages
UniquelyDeclared == \A ext \in AllExtensions : Cardinality(Declaring(ext)) = 1

\* the one entry that declares each extension
DeclaredBy == [ext \in AllExtensions |-> CHOOSE i \in Declaring(ext) : TRUE]

\* the registry does not depend on the order it is populated in
OrderIndependent == languagesReversed = languages

\* C33 (registry uniqueness): every extension is declared by exactly one
\* entry of allLanguages, the strings compared case-sensitively, so the
\* registry is the same in whichever order it is populated; and the
\* LocCounter locFile gets for a file has the descriptor of the one entry
\* that declares the key looked up.
C33_RegistryUniqueness ==
  /\ UniquelyDeclared
  /\ OrderIndependent
  /\ lcpc \in {"loop", "done"} =>
       /\ locFileExt(input.name) \in AllExtensions
       /\ lc.language = allLanguages[DeclaredBy[locFileExt(input.name)]]

\* C33 happens: locFile has looked up the language of f.c, which is C, the
\* extension C being declared by C++ alone
C33_Witness ==
  /\ lcpc = "loop"
  /\ input.name = <<"f", ".", "c">>
  /\ lc.language.name = "C"
  /\ \A i \in Declaring(<<"C">>) : allLanguages[i].name = "C++"
  /\ Declaring(<<"C">>) # {}

\* the task of entry c has been started and its send has not been received
Unsent(c) == pc[c] \notin {"idle", "done"}

\* C34 (channel lifetime in locDir): the two channels of a locDir invocation
\* are closed only by that invocation, in the step in which it returns after
\* its loop that gathers, and from then on every task it started has had its
\* send received: no task sends on a closed channel and none is left
\* blocked on a send once locDir has returned; a locDir that returns before
\* it makes the channels has started no task.
C34_ChannelLifetime ==
  \A i \in Entries :
    /\ i \in closed => HasReturned(i) /\ IsListed(i)
    /\ (HasReturned(i) /\ IsListed(i)) => i \in closed
    /\ (i \in closed \/ HasReturned(i)) =>
         \A c \in Entries : ChildOf(c, i) =>
           /\ ~Unsent(c)
           /\ (pc[c] = "done") = (IsListed(i) /\ c \in ChildDirs(i) \cup ChildFiles(i))

\* C34 happens: locDir on the root and locDir on a subdirectory of it have
\* closed their channels, each after the send of a file task was received,
\* the root's after the send of the subdirectory's task as well
C34_Witness ==
  /\ pc[0] = "done"
  /\ 0 \in closed
  /\ \E d \in ChildDirs(0) :
       /\ d \in closed
       /\ \E f \in ChildFiles(d) : pc[f] = "done"
  /\ \E f \in ChildFiles(0) : pc[f] = "done"

\* the descriptor declares block-start tokens and each of them begins with
\* one of its inline-comment tokens
Shadowed(lang) ==
  /\ lang.multiLineCommentStartingTokens # <<>>
  /\ \A s \in Range(lang.multiLineCommentStartingTokens) :
       \E t \in Range(lang.inlineCommentTokens) : HasPrefix(s, t)

\* C35 (block comments shadowed by an inline token): for a descriptor whose
\* block-start tokens each begin with an inline-comment token, as Matlab's
\* %{ does with %, the lowest block-start index of a line is never smaller
\* than its lowest inline index, the classifier is never in the
\* block-comment state, and every line, those from %{ to %} included, gets
\* the verdict of an ordinary line: counted exactly when, left-trimmed, it is
\* neither empty nor begins with an inline-comment token.
C35_ShadowedBlockComments ==
  [][ Shadowed(lc.language) =>
        /\ lc.state # "stateMultiLineComment"
        /\ lc'.state # "stateMultiLineComment"
        /\ lcpc = "process" =>
             /\ BlockIdx(lc.currLine) >= InlineIdx(lc.currLine)
             /\ lcpc' = "scan" =>
                  lc'.loc = lc.loc + (IF Skipped(TrimLeft(raw)) THEN 0 ELSE 1)
    ]_vars

\* C35 happens: Count on a Matlab file has read three lines, the last of
\* them %}, and counted one, in the Code state
C35_Witness ==
  /\ lcpc = "scan"
  /\ lc.language.name = "Matlab"
  /\ Shadowed(lc.language)
  /\ lc.fileLinesCnt = 3
  /\ raw = <<"%", "}">>
  /\ lc.loc = 1
  /\ lc.state = "stateCode"

\* the token of the sequence declared first among those that occur in the
\* line at the lowest index any of them occurs at
FirstDeclaredLowest(line, tokens) ==
  LET low == Lowest(FirstIndices(line, Range(tokens)))
      k == CHOOSE i \in 1..Len(tokens) :
             /\ Index(line, tokens[i]) = low
             /\ \A j \in 1..(i - 1) : Index(line, tokens[j]) # low
  IN  tokens[k]

\* the descriptor lists /* before /**
SlashStarBeforeDoc(lang) ==
  \E i \in 1..Len(lang.multiLineCommentStartingTokens) :
    /\ lang.multiLineCommentStartingTokens[i] = <<"/", "*", "*">>
    /\ \E j \in 1..(i - 1) : lang.multiLineCommentStartingTokens[j] = <<"/", "*">>

\* C36 (tie-breaking between tokens): a call of process that opens a block
\* comment stores the starting token declared first among those found at
\* the lowest index, and cuts the line behind that token; for a descriptor
\* that lists /* before /** the token stored is never /**, and the line /**/
\* ends in the Code state, uncounted, its comment opened and closed.
C36_TieBreaking ==
  [][ /\ ( /\ lcpc = "process"
           /\ lc.state \in {"stateInitial", "stateCode"}
           /\ BlockIdx(lc.currLine) < InlineIdx(lc.currLine) ) =>
           LET t == FirstDeclaredLowest(lc.currLine,
                                        lc.language.multiLineCommentStartingTokens)
           IN  /\ lc'.token = t
               /\ lc'.currLine =
                    TrimLeft(Drop(lc.currLine, BlockIdx(lc.currLine) + Len(t)))
      /\ SlashStarBeforeDoc(lc.language) =>
           /\ lc'.token # <<"/", "*", "*">>
           /\ (lcpc = "process" /\ lcpc' = "scan" /\ TrimLeft(raw) = <<"/", "*", "*", "/">>) =>
                /\ lc'.state = "stateCode"
                /\ lc'.currLine = <<>>
                /\ lc'.loc = lc.loc
    ]_vars

\* C36 happens: the first line of a Java file, /**/, is done: the classifier
\* is in the Code state, nothing is left of the line and nothing is counted
C36_Witness ==
  /\ lcpc = "scan"
  /\ lc.language.name = "Java"
  /\ SlashStarBeforeDoc(lc.language)
  /\ lc.fileLinesCnt = 1
  /\ raw = <<"/", "*", "*", "/">>
  /\ lc.state = "stateCode"
  /\ lc.currLine = <<>>
  /\ lc.loc = 0

\* C37 (state and stored token agree): between the calls of process the
\* classifier is in the block comment state exactly when the stored token is
\* not empty, and a stored token that is not empty is one of the block
\* comment starting tokens the language declares.
C37_StateAndTokenAgree ==
  /\ (lc.state = "stateMultiLineComment") <=> (lc.token # <<>>)
  /\ lc.token # <<>> =>
       lc.token \in Range(lc.language.multiLineCommentStartingTokens)

\* C37 happens: the first line of a file opened a block comment and the
\* same line closed it: the state is Code again, the stored token is empty
\* and the rest of the line is still to be processed
C37_Witness ==
  /\ lcpc = "process"
  /\ lc.fileLinesCnt = 1
  /\ BlockIdx(TrimLeft(raw)) = 0
  /\ BlockIdx(TrimLeft(raw)) < InlineIdx(TrimLeft(raw))
  /\ lc.state = "stateCode"
  /\ lc.token = <<>>
  /\ lc.currLine # TrimLeft(raw)

\* the lines of the file read so far, left-trimmed as Count trims them
LinesRead == [i \in 1..lc.fileLinesCnt |-> TrimLeft(input.lines[i])]

\* between two lines of the file, or at its end
AtLineBoundary == lcpc \in {"loop", "done"}

\* C38 (Initial means nothing counted yet): between two lines of a file and
\* at its end, a classifier in the Initial state has counted nothing and
\* every line read so far was empty or began with an inline-comment token;
\* a classifier that is not in the Initial state between two lines is not in
\* it after the next line either.
C38_InitialNothingCounted ==
  /\ [](AtLineBoundary /\ lc.state = "stateInitial" =>
          /\ lc.loc = 0
          /\ \A i \in 1..lc.fileLinesCnt : Skipped(LinesRead[i]))
  /\ [][AtLineBoundary /\ lc.state # "stateInitial" =>
          lc'.state # "stateInitial"]_vars

\* C38 happens: the two lines read so far, an empty one and one that begins
\* with an inline-comment token, left the classifier in the Initial state
\* with nothing counted, and the line still to be read is neither
C38_Witness ==
  /\ lcpc = "loop"
  /\ lc.state = "stateInitial"
  /\ lc.loc = 0
  /\ lc.fileLinesCnt = 2
  /\ \E i \in 1..2 : LinesRead[i] = <<>>
  /\ \E i \in 1..2 : LinesRead[i] # <<>> /\ Skipped(LinesRead[i])
  /\ Len(input.lines) = 3
  /\ ~Skipped(TrimLeft(input.lines[3]))

\* the name of the language of a file whose language is supported
LangOf(e) == languages[locFileExt(e.name)].name

\* the file e is of a supported language and Count counts no line in it
CountsNothing(e) ==
  /\ e.kind = "file"
  /\ NewLocCounterValid(locFileExt(e.name))
  /\ Count(NewLocCounter(locFileExt(e.name)), e.body, e.readErr).loc = 0

\* the files of the model of a supported language in which Count counts no
\* line, computed once
ZeroCountSeq == SelectSeq(Menu \o RootMenu, CountsNothing)
ZeroCountFiles == Range(ZeroCountSeq)

\* the FileResult of a file of a supported language with no line counted
ZeroResult(e) == [Name |-> << e.name >>, Loc |-> [l \in {LangOf(e)} |-> 0]]

\* the file results received so far below the directory a
ReceivedBelow(a) ==
  { d \in Entries : /\ Below(d, a)
                    /\ EntryOf(fs, d).kind = "file"
                    /\ pc[d] = "done"
                    /\ ~fileResult[d].nil }

\* C39 (zero-count files stay visible): the FileResult of a file of a
\* supported language in which no line is counted has exactly one key, the
\* name of its language, with the value 0; once received it is an element
\* of the Files of its directory, and the name of its language is a key of
\* the Summary of its directory and of every directory above that has
\* returned, with the value 0 when no other file received below has counted
\* a line of that language; an unsupported file adds no key: the keys of the
\* Summary of a directory that has returned are the languages of the
\* non-nil file results received below it.
C39_ZeroCountVisible ==
  /\ \A c \in Entries :
       LET e == EntryOf(fs, c)
       IN  (e \in ZeroCountFiles /\ ~e.openErr /\ HasReturnedFile(c)) =>
             /\ ~fileResult[c].nil
             /\ fileResult[c].Name = ZeroResult(e).Name
             /\ fileResult[c].Loc = ZeroResult(e).Loc
             /\ \A a \in Entries :
                  ( /\ pc[c] = "done"
                    /\ Below(c, a)
                    /\ (fs.parent[c] = a \/ Returned(a)) ) =>
                      /\ fs.parent[c] = a =>
                           \E k \in 1..Len(result[a].Files) :
                             result[a].Files[k] = ZeroResult(e)
                      /\ LangOf(e) \in DOMAIN result[a].Summary
                      /\ (\A d \in ReceivedBelow(a) :
                            Get(fileResult[d].Loc, LangOf(e)) = 0) =>
                           result[a].Summary[LangOf(e)] = 0
  /\ \A a \in Entries :
       (Returned(a) /\ IsListed(a)) =>
         DOMAIN result[a].Summary =
           UNION { DOMAIN fileResult[d].Loc : d \in ReceivedBelow(a) }

\* C39 happens: CountLoc has returned the DirResult of a directory with an
\* unsupported file and, in a subdirectory, a file of a supported language
\* with no line counted: the Summary of the root is that language with 0
C39_Witness ==
  /\ pc[0] = "done"
  /\ Returned(0)
  /\ \E c \in Entries :
       /\ EntryOf(fs, c) \in ZeroCountFiles
       /\ pc[c] = "done"
       /\ c # 0 /\ fs.parent[c] # 0
       /\ out.Summary = ZeroResult(EntryOf(fs, c)).Loc
       /\ out.Files = <<>>
  /\ \E u \in Entries :
       /\ Unsupported(EntryOf(fs, u))
       /\ pc[u] = "done"

=============================================================================
